---- MODULE Spec2Model ----
(***************************************************************************)
(* kysely-bun-psql: the value transformer (utils.ts), the connection       *)
(* wrapper BunConnection (connection.ts) and the driver BunDriver          *)
(* (driver.ts), over a model of the native client (Bun SQL pool, reserved  *)
(* sessions) and of the PostgreSQL server behind it.                       *)
(*                                                                         *)
(* A JavaScript string is a sequence of one-character strings; a           *)
(* JavaScript value is a record [t, v]: t its type tag, v its payload.     *)
(***************************************************************************)
EXTENDS Integers, Sequences, FiniteSets, TLC

(***************************************************************************)
(* Bounds of the model.                                                    *)
(***************************************************************************)
\* longest string bound alone (as a one-element array)
MaxStrLen == 3
\* longest array built from the short elements
MaxArr == 2
\* sessions of the pool (the configuration's max)
NumSessions == 2
\* connection wrappers acquired in one run
MaxWrappers == 2
\* statements handed to sessions in one run
MaxStmts == 4
\* rows inserted in one run
MaxRows == 2
\* parameters of one compiled query
MaxParams == 2

(***************************************************************************)
(* Characters and JavaScript values.                                       *)
(***************************************************************************)
BS == "\\"
DQ == "\""
SQ == "'"

\* ordinary characters, the separators of an array literal, and the two
\* characters the transformer escapes
Alphabet == {"a", ",", "{", "}", DQ, BS}

Null == [t |-> "null", v |-> <<>>]
Undefined == [t |-> "undefined", v |-> <<>>]
Num(n) == [t |-> "number", v |-> n]
Bool(b) == [t |-> "boolean", v |-> b]
Str(s) == [t |-> "string", v |-> s]
Arr(a) == [t |-> "array", v |-> a]
\* a plain object: the sequence of its <<key, value>> properties
Obj(props) == [t |-> "object", v |-> props]
\* a property value that is the object holding the property: a cycle
SelfReference == [t |-> "reference", v |-> <<>>]
\* a function that returns undefined
ReturnsUndefined == [t |-> "function", v |-> <<>>]

SeqsUpTo(S, n) == UNION {[1..k -> S] : k \in 0..n}

(***************************************************************************)
(* JavaScript built-ins used by utils.ts.                                  *)
(***************************************************************************)
RECURSIVE replaceAll(_, _, _)
\* String.prototype.replace(/c/g, rep): every occurrence of the character c
\* replaced by the text rep, left to right
replaceAll(s, c, rep) ==
  IF s = <<>> THEN <<>>
  ELSE (IF Head(s) = c THEN rep ELSE <<Head(s)>>) \o replaceAll(Tail(s), c, rep)

RECURSIVE join(_, _)
\* Array.prototype.join(sep)
join(parts, sep) ==
  IF parts = <<>> THEN <<>>
  ELSE IF Len(parts) = 1 THEN parts[1]
  ELSE parts[1] \o sep \o join(Tail(parts), sep)

Digit(d) == <<"0", "1", "2", "3", "4", "5", "6", "7", "8", "9">>[d + 1]

RECURSIVE NatString(_)
NatString(n) ==
  IF n < 10 THEN <<Digit(n)>> ELSE NatString(n \div 10) \o <<Digit(n % 10)>>

RECURSIVE JSONstringify(_)
RECURSIVE String(_)
\* String(item) of a number, a boolean, null, undefined, a string, an array
\* (Array.prototype.toString: the elements joined by commas, null and
\* undefined elements empty) or a plain object
String(item) ==
  CASE item.t = "number" ->
         IF item.v < 0 THEN <<"-">> \o NatString(-item.v) ELSE NatString(item.v)
    [] item.t = "boolean" ->
         IF item.v THEN <<"t", "r", "u", "e">> ELSE <<"f", "a", "l", "s", "e">>
    [] item.t = "null" -> <<"n", "u", "l", "l">>
    [] item.t = "undefined" ->
         <<"u", "n", "d", "e", "f", "i", "n", "e", "d">>
    [] item.t = "string" -> item.v
    [] item.t = "array" ->
         join([i \in 1..Len(item.v) |->
                 IF item.v[i].t \in {"null", "undefined"} THEN <<>>
                 ELSE String(item.v[i])], <<",">>)
    [] OTHER ->
         <<"[", "o", "b", "j", "e", "c", "t", " ",
           "O", "b", "j", "e", "c", "t", "]">>

\* the text of a JSON string: quoted, with quotes and backslashes escaped
JSONquote(s) ==
  <<DQ>> \o join([i \in 1..Len(s) |->
                    IF s[i] \in {DQ, BS} THEN <<BS, s[i]>> ELSE <<s[i]>>], <<>>)
         \o <<DQ>>

\* JSON.stringify(item) of a value that has a JSON text
JSONstringify(item) ==
  CASE item.t = "string" -> JSONquote(item.v)
    [] item.t \in {"number", "boolean", "null"} -> String(item)
    [] item.t = "array" ->
         <<"[">> \o join([i \in 1..Len(item.v) |->
                            IF item.v[i].t = "undefined" THEN String(Null)
                            ELSE JSONstringify(item.v[i])], <<",">>)
                 \o <<"]">>
    [] OTHER ->
         <<"{">> \o join([i \in 1..Len(item.v) |->
                            JSONquote(item.v[i][1]) \o <<":">>
                              \o JSONstringify(item.v[i][2])], <<",">>)
                 \o <<"}">>

RECURSIVE JSONstringifyThrows(_)
\* JSON.stringify(item) throws TypeError: item holds a reference cycle
JSONstringifyThrows(item) ==
  CASE item.t = "object" ->
         \E i \in 1..Len(item.v) :
           \/ item.v[i][2] = SelfReference
           \/ JSONstringifyThrows(item.v[i][2])
    [] item.t = "array" ->
         \E i \in 1..Len(item.v) : JSONstringifyThrows(item.v[i])
    [] OTHER -> FALSE

\* JSON.stringify(item) returns undefined, not a text: item is undefined,
\* a function, or an object whose toJSON returns undefined
JSONstringifyUndefined(item) ==
  \/ item.t \in {"undefined", "function"}
  \/ /\ item.t = "object"
     /\ \E i \in 1..Len(item.v) :
          /\ item.v[i][1] = <<"t", "o", "J", "S", "O", "N">>
          /\ item.v[i][2] = ReturnsUndefined

(***************************************************************************)
(* utils.ts                                                                *)
(***************************************************************************)
\* a configuration object: its properties, and whether it is frozen
ConfigObject(fields) == [fields |-> fields, frozen |-> FALSE]

\* { ...config }: a new, unfrozen object with the properties of config
spread(config) == ConfigObject(config.fields)

\* freeze that returns its argument as it is
freezeNothing(obj) == obj

\* freeze(obj): Object.freeze(obj)
freeze(obj) == [obj EXCEPT !.frozen = TRUE]

\* obj[f] = v in module code: a frozen object keeps its properties and the
\* assignment throws TypeError
assign(obj, f, v) ==
  IF obj.frozen THEN obj ELSE [obj EXCEPT !.fields[f] = v]

\* the string branch with the two replacements in the other order:
\* quotes first, so the backslash just added is doubled again
escapeQuotesFirst(item) ==
  replaceAll(replaceAll(item, DQ, <<BS, DQ>>), BS, <<BS, BS>>)

\* item.replace(/\\/g, "\\\\").replace(/"/g, '\\"')
escapeElement(item) ==
  replaceAll(replaceAll(item, BS, <<BS, BS>>), DQ, <<BS, DQ>>)

\* the string branch quoting only the strings that hold a separator, a
\* brace, a quote or a backslash, the others written as they are
quoteElementWhenNeeded(item) ==
  IF \E i \in 1..Len(item) : item[i] \in {",", "{", "}", DQ, BS}
  THEN <<DQ>> \o replaceAll(replaceAll(item, BS, <<BS, BS>>), DQ, <<BS, DQ>>)
         \o <<DQ>>
  ELSE item

\* the string branch of an earlier revision: single quotes, '' for '
quoteElementSingle(item) ==
  <<SQ>> \o replaceAll(item, SQ, <<SQ, SQ>>) \o <<SQ>>

\* `"${escaped}"` of a string element
quoteElement(item) ==
  <<DQ>> \o escapeElement(item) \o <<DQ>>

RECURSIVE createPostgresArrayUnquoted(_)
\* the literal without the string branch: every element by String(item)
createPostgresArrayUnquoted(arr) ==
  LET serialized ==
        join([i \in 1..Len(arr) |->
                LET item == arr[i] IN
                CASE item.t = "null" -> <<"N", "U", "L", "L">>
                  [] item.t = "array" -> createPostgresArrayUnquoted(item.v)
                  [] OTHER -> String(item)],
             <<",">>)
  IN <<"{">> \o serialized \o <<"}">>

RECURSIVE createPostgresArrayRawJson(_)
\* createPostgresArray whose object branch quotes the JSON text without
\* escaping it
createPostgresArrayRawJson(arr) ==
  LET serialized ==
        join([i \in 1..Len(arr) |->
                LET item == arr[i] IN
                CASE item.t = "null" -> <<"N", "U", "L", "L">>
                  [] item.t = "string" -> quoteElement(item.v)
                  [] item.t = "object" ->
                       <<DQ>> \o JSONstringify(item) \o <<DQ>>
                  [] item.t = "array" -> createPostgresArrayRawJson(item.v)
                  [] OTHER -> String(item)],
             <<",">>)
  IN <<"{">> \o serialized \o <<"}">>

RECURSIVE createPostgresArrayObjectFirst(_)
\* createPostgresArray of an earlier revision: the object branch tests
\* typeof item === "object" alone, which an array satisfies too
createPostgresArrayObjectFirst(arr) ==
  LET serialized ==
        join([i \in 1..Len(arr) |->
                LET item == arr[i] IN
                CASE item.t = "null" -> <<"N", "U", "L", "L">>
                  [] item.t = "string" -> quoteElement(item.v)
                  [] item.t \in {"object", "array"} ->
                       <<DQ>> \o escapeElement(JSONstringify(item)) \o <<DQ>>
                  [] OTHER -> String(item)],
             <<",">>)
  IN <<"{">> \o serialized \o <<"}">>

RECURSIVE createPostgresArray(_)
\* the text of the PostgreSQL array literal of a JavaScript array
createPostgresArray(arr) ==
  LET serialized ==
        join([i \in 1..Len(arr) |->
                LET item == arr[i] IN
                CASE item.t = "null" -> <<"N", "U", "L", "L">>
                  [] item.t = "string" -> quoteElement(item.v)
                  [] item.t = "object" ->
                       <<DQ>> \o escapeElement(JSONstringify(item)) \o <<DQ>>
                  [] item.t = "array" -> createPostgresArray(item.v)
                  [] OTHER -> String(item)],
             <<",">>)
  IN <<"{">> \o serialized \o <<"}">>

RECURSIVE createPostgresArrayThrows(_)
\* createPostgresArray(arr) throws TypeError instead of returning: the
\* object branch calls JSON.stringify(item), which throws on a cycle, and
\* then jsonString.replace, which throws when jsonString is undefined; the
\* array branch throws when the nested call does; nothing catches either
createPostgresArrayThrows(arr) ==
  \E i \in 1..Len(arr) :
    LET item == arr[i] IN
    CASE item.t \in {"null", "string"} -> FALSE
      [] item.t = "object" ->
           JSONstringifyThrows(item) \/ JSONstringifyUndefined(item)
      [] item.t = "array" -> createPostgresArrayThrows(item.v)
      [] OTHER -> FALSE

\* transformValue(value) throws instead of returning
transformValueThrows(value) ==
  value.t = "array" /\ createPostgresArrayThrows(value.v)

\* transformValue that also quotes and escapes a string parameter
transformValueQuotesStrings(value) ==
  IF value.t = "array" THEN Str(createPostgresArray(value.v))
  ELSE IF value.t = "string" THEN Str(quoteElement(value.v))
  ELSE value

\* transformValue that writes a plain object as its JSON text
transformValueJsonObjects(value) ==
  IF value.t = "array" THEN Str(createPostgresArray(value.v))
  ELSE IF value.t = "object" THEN Str(JSONstringify(value))
  ELSE value

\* the value handed to the native client for one bound parameter
transformValue(value) ==
  IF value.t = "array" THEN Str(createPostgresArray(value.v)) ELSE value

\* the transformation written into the compiled parameter list itself
transformInPlace(parameters) ==
  LET transformed == [i \in 1..Len(parameters) |-> transformValue(parameters[i])]
  IN [result |-> transformed, receiver |-> transformed]

\* compiledQuery.parameters.map(transformValue): the new list map
\* returns, and the list it was called on, which map does not write to
mapTransformValue(parameters) ==
  [result |-> [i \in 1..Len(parameters) |-> transformValue(parameters[i])],
   receiver |-> parameters]

\* executeQuery that hands the compiled parameters over as they are
unsafeArgumentsUntransformed(compiledQuery) ==
  [sql |-> compiledQuery.sql, parameters |-> compiledQuery.parameters]

\* executeQuery up to the call of the session: the arguments of
\* unsafe(compiledQuery.sql, compiledQuery.parameters.map(transformValue))
unsafeArguments(compiledQuery) ==
  [sql |-> compiledQuery.sql,
   parameters |-> mapTransformValue(compiledQuery.parameters).result]

\* createJsonArrayString with the null token of createPostgresArray
createJsonArrayStringNullUpper(arr) ==
  IF Len(arr) = 0 THEN <<"{", "}">>
  ELSE <<"{">>
         \o join([i \in 1..Len(arr) |->
                    IF arr[i].t = "null" THEN <<"N", "U", "L", "L">>
                    ELSE <<DQ>> \o escapeElement(JSONstringify(arr[i])) \o <<DQ>>],
                 <<",">>)
         \o <<"}">>

\* createJsonArrayString that quotes the JSON text without escaping it
createJsonArrayStringRaw(arr) ==
  IF Len(arr) = 0 THEN <<"{", "}">>
  ELSE <<"{">>
         \o join([i \in 1..Len(arr) |->
                    IF arr[i].t = "null" THEN <<"n", "u", "l", "l">>
                    ELSE <<DQ>> \o JSONstringify(arr[i]) \o <<DQ>>],
                 <<",">>)
         \o <<"}">>

\* createJsonArrayString(arr): the array literal for a JSONB[] column, each
\* element the escaped JSON text of an item, a null item the token null
createJsonArrayString(arr) ==
  IF Len(arr) = 0 THEN <<"{", "}">>
  ELSE <<"{">>
         \o join([i \in 1..Len(arr) |->
                    IF arr[i].t = "null" THEN <<"n", "u", "l", "l">>
                    ELSE <<DQ>> \o escapeElement(JSONstringify(arr[i])) \o <<DQ>>],
                 <<",">>)
         \o <<"}">>

\* jsonbArray(items), the exported helper: the text of the JSONB[] literal
\* of items
jsonbArray(items) == Str(createJsonArrayString(items))

(***************************************************************************)
(* The server's reading of an array literal (PostgreSQL array input for a  *)
(* one-dimensional text array): elements separated by commas inside one    *)
(* pair of braces; a quoted element runs to the next unescaped double      *)
(* quote; a backslash makes the next character literal; an unquoted        *)
(* element runs to the next comma or closing brace and is null when it     *)
(* spells NULL in any case.                                                *)
(***************************************************************************)
Malformed == [t |-> "malformed", v |-> <<>>]

Upper(c) ==
  CASE c = "n" -> "N" [] c = "u" -> "U" [] c = "l" -> "L" [] OTHER -> c

IsNullWord(cur) ==
  /\ Len(cur) = 4
  /\ [i \in 1..4 |-> Upper(cur[i])] = <<"N", "U", "L", "L">>

\* an unquoted element: null, or the text as it stands
unquotedElement(cur) ==
  IF IsNullWord(cur) THEN Null ELSE Str(cur)

\* the last position of the run of characters from i on that holds none of
\* the characters stops (s[i] is none of them)
runEnd(s, i, stops) ==
  CHOOSE j \in i..Len(s) :
    /\ \A k \in i..j : s[k] \notin stops
    /\ j = Len(s) \/ s[j + 1] \in stops

RECURSIVE arrayScan(_, _, _, _, _)
\* the elements of literal s read from position i on; mode is where the
\* reader stands: "first" (after the opening brace), "next" (after a comma),
\* "quoted", "unquoted", "closed" (after a closing quote); cur is the text
\* of the element being read, acc the elements read so far
arrayScan(s, i, mode, cur, acc) ==
  IF i > Len(s) THEN Malformed
  ELSE
    LET c == s[i] IN
    CASE mode \in {"first", "next"} ->
           IF c = DQ THEN arrayScan(s, i + 1, "quoted", <<>>, acc)
           ELSE IF c = "}" THEN
             IF mode = "first" /\ i = Len(s) THEN Arr(acc) ELSE Malformed
           ELSE IF c \in {",", "{"} THEN Malformed
           ELSE IF c = BS THEN
             IF i + 1 > Len(s) THEN Malformed
             ELSE arrayScan(s, i + 2, "unquoted", <<s[i + 1]>>, acc)
           ELSE arrayScan(s, i + 1, "unquoted", <<c>>, acc)
      [] mode = "quoted" ->
           IF c = BS THEN
             IF i + 1 > Len(s) THEN Malformed
             ELSE arrayScan(s, i + 2, "quoted", Append(cur, s[i + 1]), acc)
           ELSE IF c = DQ THEN arrayScan(s, i + 1, "closed", cur, acc)
           ELSE LET j == runEnd(s, i, {BS, DQ})
                IN arrayScan(s, j + 1, "quoted", cur \o SubSeq(s, i, j), acc)
      [] mode = "closed" ->
           IF c = "," THEN arrayScan(s, i + 1, "next", <<>>, Append(acc, Str(cur)))
           ELSE IF c = "}" THEN
             IF i = Len(s) THEN Arr(Append(acc, Str(cur))) ELSE Malformed
           ELSE Malformed
      [] OTHER ->
           IF c = "," THEN
             arrayScan(s, i + 1, "next", <<>>, Append(acc, unquotedElement(cur)))
           ELSE IF c = "}" THEN
             IF i = Len(s) THEN Arr(Append(acc, unquotedElement(cur)))
             ELSE Malformed
           ELSE IF c \in {DQ, "{"} THEN Malformed
           ELSE IF c = BS THEN
             IF i + 1 > Len(s) THEN Malformed
             ELSE arrayScan(s, i + 2, "unquoted", Append(cur, s[i + 1]), acc)
           ELSE LET j == runEnd(s, i, {",", "}", "{", DQ, BS})
                IN arrayScan(s, j + 1, "unquoted", cur \o SubSeq(s, i, j), acc)

\* the array the server stores for the literal s
arrayIn(s) ==
  IF Len(s) >= 2 /\ s[1] = "{" THEN arrayScan(s, 2, "first", <<>>, <<>>)
  ELSE Malformed

RECURSIVE dequote(_, _, _)
\* the text of one quoted element q: the surrounding quotes stripped,
\* backslash-x read as x; Malformed when q is not one quoted element
dequote(q, i, cur) ==
  IF i > Len(q) THEN Malformed
  ELSE IF q[i] = BS THEN
    IF i + 1 > Len(q) THEN Malformed ELSE dequote(q, i + 2, Append(cur, q[i + 1]))
  ELSE IF q[i] = DQ THEN (IF i = Len(q) THEN Str(cur) ELSE Malformed)
  ELSE dequote(q, i + 1, Append(cur, q[i]))

unescapeElement(q) ==
  IF Len(q) >= 2 /\ q[1] = DQ THEN dequote(q, 2, <<>>) ELSE Malformed

(***************************************************************************)
(* State.                                                                  *)
(***************************************************************************)
VARIABLES
  \* the value transformer: a bound parameter, the value transformValue
  \* gives for it, the array the server reads from that, and how far it got
  value, wire, stored, tpc,
  \* the native client: the pool of driver.#sql ("open" or "closed") and
  \* its sessions
  pool, session,
  \* the server: the committed rows of the table, the next serial id
  table, nextRow,
  \* the BunConnection objects acquireConnection has returned, in order
  conn,
  \* whether destroy() has completed on the driver
  destroyed,
  \* of every row inserted: who inserted it and what became of it
  fate,
  \* the call that completed last, and its outcome
  last,
  \* the configuration: the objects by reference (1: the caller's, 2: the
  \* dialect's #config, 3: the driver's #config), the options the pool was
  \* built with, how far construction got, and the outcome of the last
  \* assignment to a property
  heap, poolOptions, cpc, assigned,
  \* the statements handed to a session by an executeQuery that is still
  \* suspended in its await, and of the statement the server ran last: its
  \* wrapper, its session, whether the wrapper had been released by then
  \* and the other wrapper that held the session then (0: none)
  inflight, ran

tvars == <<value, wire, stored, tpc>>
dvars == <<pool, session, table, nextRow, conn, destroyed, fate, last>>
cvars == <<heap, poolOptions, cpc, assigned>>
ivars == <<inflight, ran>>
vars == <<tvars, dvars, cvars, ivars>>

Sessions == 1..NumSessions
Rows == 1..MaxRows
\* the cleared #reservedConnection (null!)
NULL == 0

(***************************************************************************)
(* Parameters bound in the model.                                          *)
(***************************************************************************)
Numbers == {0, 7, -12, 100}

ShortStrings ==
  SeqsUpTo(Alphabet, 1) \cup {<<"N", "U", "L", "L">>, <<"n", "u", "l", "l">>}

Primitives ==
  {Str(s) : s \in ShortStrings} \cup {Num(n) : n \in Numbers}
    \cup {Bool(b) : b \in BOOLEAN} \cup {Null}

\* the arrays of the repository's tests and of the specification's examples
ExampleArrays ==
  { Arr(<<Str(<<"a">>), Str(<<"b", ",", "c">>), Str(<<"d", DQ, "e">>)>>),
    Arr(<<Num(1), Num(2), Num(3), Num(100)>>),
    Arr(<<Str(<<"o", "n", "e">>), Null, Str(<<"t", "h", "r", "e", "e">>)>>),
    Arr(<<Str(<<"j", "s">>), Str(<<"t", "s">>), Str(<<"d", "b">>),
          Str(<<"k", "y", "s", "e", "l", "y">>)>>) }

Arrays ==
  {Arr(a) : a \in SeqsUpTo(Primitives, MaxArr)}
    \cup {Arr(<<Str(s)>>) : s \in SeqsUpTo(Alphabet, MaxStrLen)}
    \cup ExampleArrays

\* the object of the JSONB tests:
\* {type: "sample", value: 42, active: true, label: "x"}
TestItem ==
  Obj(<< <<(<<"t", "y", "p", "e">>), Str(<<"s", "a", "m", "p", "l", "e">>)>>,
         <<(<<"v", "a", "l", "u", "e">>), Num(42)>>,
         <<(<<"a", "c", "t", "i", "v", "e">>), Bool(TRUE)>>,
         <<(<<"l", "a", "b", "e", "l">>), Str(<<"x">>)>> >>)

\* small plain objects: the empty one, {id: 1}, one whose string holds a
\* double quote, one whose string holds a backslash
SmallObjects ==
  { Obj(<<>>),
    Obj(<< <<(<<"i", "d">>), Num(1)>> >>),
    Obj(<< <<(<<"k">>), Str(<<DQ>>)>> >>),
    Obj(<< <<(<<"k">>), Str(<<BS>>)>> >>) }

Objects == SmallObjects \cup {TestItem}

\* arrays of plain objects and nulls
ObjectArrays ==
  {Arr(a) : a \in SeqsUpTo(SmallObjects \cup {Null}, MaxArr)}
    \cup {Arr(<<TestItem>>)}

\* const o = {}; o.self = o
CyclicObject == Obj(<< <<(<<"s", "e", "l", "f">>), SelfReference>> >>)

\* { toJSON() { return undefined } }
NoJsonObject ==
  Obj(<< <<(<<"t", "o", "J", "S", "O", "N">>), ReturnsUndefined>> >>)

\* arrays that hold an object with no JSON text
NoJsonArrays ==
  { Arr(<<CyclicObject>>), Arr(<<NoJsonObject>>),
    Arr(<<Num(1), CyclicObject>>), Arr(<<Arr(<<NoJsonObject>>)>>) }

\* arrays of arrays: [[1,2],[3]], [["a"],[]], [[["a"]]],
\* [[null,"a,a"],[true]], [1,[2]]
NestedArrays ==
  { Arr(<<Arr(<<Num(1), Num(2)>>), Arr(<<Num(3)>>)>>),
    Arr(<<Arr(<<Str(<<"a">>)>>), Arr(<<>>)>>),
    Arr(<<Arr(<<Arr(<<Str(<<"a">>)>>)>>)>>),
    Arr(<<Arr(<<Null, Str(<<"a", ",", "a">>)>>), Arr(<<Bool(TRUE)>>)>>),
    Arr(<<Num(1), Arr(<<Num(2)>>)>>) }

\* elements that stand next to an object in the mixed arrays
MixedPrimitives ==
  {Str(<<"a">>), Str(<<DQ>>), Str(<<BS>>), Str(<<",">>), Num(7), Bool(TRUE), Null}

\* arrays that hold a plain object next to strings, numbers, booleans and
\* nulls
MixedArrays ==
  {Arr(<<o, e>>) : o \in SmallObjects, e \in MixedPrimitives}
    \cup {Arr(<<e, o>>) : o \in SmallObjects, e \in MixedPrimitives}
    \cup {Arr(<<Str(<<"a", DQ>>), TestItem, Num(7), Null, Bool(FALSE)>>)}

Scalars ==
  Primitives \cup {Undefined, ReturnsUndefined} \cup Objects
    \cup {CyclicObject, NoJsonObject}

Values ==
  Arrays \cup ObjectArrays \cup MixedArrays \cup NestedArrays \cup NoJsonArrays
    \cup Scalars

\* SQL texts of compiled queries with parameters
ParameterizedTexts ==
  {"INSERT INTO test_table (value) VALUES ($1) RETURNING id",
   "SELECT value FROM test_table WHERE id = $1"}

\* the parameters compiled queries are built from
ParameterValues ==
  { Str(<<"a">>), Num(7), Null, Undefined, Obj(<< <<(<<"i", "d">>), Num(1)>> >>),
    Arr(<<Str(<<"a">>), Null>>), Arr(<<Num(1), Num(2)>>),
    Arr(<<Arr(<<Num(1), Num(2)>>), Arr(<<Num(3)>>)>>),
    Arr(<<CyclicObject>>) }

\* CompiledQuery.raw(sql, parameters)
CompiledQuery(sql, parameters) ==
  [t |-> "query", v |-> [sql |-> sql, parameters |-> parameters]]

CompiledQueries ==
  {CompiledQuery(sql, ps) :
     sql \in ParameterizedTexts, ps \in SeqsUpTo(ParameterValues, MaxParams)}

(***************************************************************************)
(* The value transformer at work: a parameter is transformed, and an       *)
(* array literal is read back by the server.                               *)
(***************************************************************************)
TInit ==
  /\ value \in Values \cup CompiledQueries
  /\ wire = Undefined
  /\ stored = Undefined
  /\ tpc = "bound"

\* compiledQuery.parameters.map(transformValue), one parameter
\* a throw of transformValue leaves executeQuery before anything is sent
Transform ==
  /\ tpc = "bound"
  /\ value.t # "query"
  /\ IF transformValueThrows(value)
     THEN /\ wire' = Undefined
          /\ tpc' = "raised"
     ELSE /\ wire' = transformValue(value)
          /\ tpc' = "sent"
  /\ UNCHANGED <<value, stored>>

\* the server reads the text bound to an array column
\* executeQuery(compiledQuery) up to the call of the session: the
\* parameters are transformed one by one, and unsafe() is called with the
\* text and the transformed list; a throw of transformValue ends the call
TransformParameters ==
  /\ tpc = "bound"
  /\ value.t = "query"
  /\ IF \E i \in 1..Len(value.v.parameters) :
          transformValueThrows(value.v.parameters[i])
     THEN /\ wire' = Undefined
          /\ tpc' = "raised"
          /\ UNCHANGED value
     ELSE /\ wire' = [t |-> "call", v |-> unsafeArguments(value.v)]
          /\ value' = CompiledQuery(value.v.sql,
                                    mapTransformValue(value.v.parameters).receiver)
          /\ tpc' = "handed"
  /\ UNCHANGED stored

\* (the parser of the model reads one-dimensional literals)
ServerStore ==
  /\ tpc = "sent"
  /\ value.t = "array"
  /\ value \notin NestedArrays
  /\ stored' = arrayIn(wire.v)
  /\ tpc' = "stored"
  /\ UNCHANGED <<value, wire>>

\* the caller binds jsonbArray(value) instead of the array value, and
\* executeQuery transforms that
TransformJsonbArray ==
  /\ tpc = "bound"
  /\ value \in ObjectArrays
  /\ wire' = transformValue(jsonbArray(value.v))
  /\ tpc' = "sent jsonb"
  /\ UNCHANGED <<value, stored>>

\* the value transformValue gave is bound as a parameter in its turn, and
\* executeQuery transforms it
TransformAgain ==
  /\ tpc \in {"sent", "sent jsonb"}
  /\ wire' = transformValue(wire)
  /\ tpc' = IF tpc = "sent" THEN "sent again" ELSE "sent jsonb again"
  /\ UNCHANGED <<value, stored>>

\* the server reads the text bound to a JSONB[] column
ServerStoreJsonb ==
  /\ tpc = "sent jsonb"
  /\ stored' = arrayIn(wire.v)
  /\ tpc' = "stored jsonb"
  /\ UNCHANGED <<value, wire>>

(***************************************************************************)
(* Statements.  A compiled query is its SQL text; the model binds the      *)
(* texts below.                                                            *)
(***************************************************************************)
IsolationLevels == {"serializable"}

\* TransactionSettings: an isolation level, or none ("")
Settings == IsolationLevels \cup {""}

\* a statement the server cannot parse
BadStatement == "selec"

DataStatements ==
  {"select", "insert", "insert returning", "update", "update returning",
   "delete", "delete returning", BadStatement}

\* the server's error texts
SyntaxError == "syntax error at or near \"selec\""

AbortedError ==
  "current transaction is aborted, commands ignored until end of transaction block"

ServerErrors == {SyntaxError, AbortedError}

Returning(sql) == sql \in {"insert returning", "update returning", "delete returning"}

\* the command verb the server reports for a statement (result.command)
Command(sql) ==
  CASE sql = "begin" -> "BEGIN"
    [] sql = "commit" -> "COMMIT"
    [] sql = "rollback" -> "ROLLBACK"
    [] sql = "select" -> "SELECT"
    [] sql \in {"insert", "insert returning"} -> "INSERT"
    [] sql \in {"update", "update returning"} -> "UPDATE"
    [] sql \in {"delete", "delete returning"} -> "DELETE"
    [] sql = BadStatement -> ""
    [] OTHER -> "START TRANSACTION"

RECURSIVE sortedRows(_)
\* a set of rows as the server returns it: in id order
sortedRows(S) ==
  IF S = {} THEN <<>>
  ELSE LET m == CHOOSE x \in S : \A y \in S : x <= y
       IN <<m>> \o sortedRows(S \ {m})

(***************************************************************************)
(* The server (PostgreSQL, read committed): one table of rows with serial  *)
(* ids.  A session in a transaction keeps its inserts and deletes to       *)
(* itself until commit; outside a transaction a statement commits at once. *)
(* insert adds one row, update and delete touch every row the session      *)
(* sees.  begin inside a transaction, commit and rollback outside one,     *)
(* succeed with a warning and change nothing.  A statement that fails      *)
(* inside a transaction aborts it: until the transaction ends every        *)
(* statement fails, and commit ends it as rollback does.                   *)
(***************************************************************************)
Visible(s) == (table \cup session[s].ins) \ session[s].del

\* what statement sql does on session s: the session's transaction, the
\* table, the next id, and the reply (command, rows, rows changed)
serverExec(s, sql) ==
  LET ss == session[s]
      seen == Visible(s)
      cmd == Command(sql)
      keep == [ss |-> ss, table |-> table, nextRow |-> nextRow, inserted |-> 0,
               reply |-> [error |-> "", command |-> cmd, rows |-> <<>>,
                          changed |-> 0]]
      ended == [ss EXCEPT !.tx = FALSE, !.failed = FALSE, !.ins = {}, !.del = {}]
  IN CASE ss.failed /\ cmd \in {"COMMIT", "ROLLBACK"} ->
            [keep EXCEPT !.ss = ended, !.reply.command = "ROLLBACK"]
       [] ss.failed ->
            [keep EXCEPT !.reply.error = AbortedError, !.reply.command = ""]
       [] sql = BadStatement ->
            [keep EXCEPT !.ss = [ss EXCEPT !.failed = ss.tx],
                         !.reply.error = SyntaxError]
       [] cmd \in {"BEGIN", "START TRANSACTION"} ->
            [keep EXCEPT !.ss = [ss EXCEPT !.tx = TRUE]]
       [] cmd = "COMMIT" ->
            [keep EXCEPT !.ss = [ss EXCEPT !.tx = FALSE, !.ins = {}, !.del = {}],
                         !.table = (table \cup ss.ins) \ ss.del]
       [] cmd = "ROLLBACK" ->
            [keep EXCEPT !.ss = [ss EXCEPT !.tx = FALSE, !.ins = {}, !.del = {}]]
       [] cmd = "SELECT" ->
            [keep EXCEPT !.reply.rows = sortedRows(seen)]
       [] cmd = "INSERT" ->
            [keep EXCEPT !.ss = IF ss.tx THEN [ss EXCEPT !.ins = @ \cup {nextRow}]
                                ELSE ss,
                         !.table = IF ss.tx THEN table ELSE table \cup {nextRow},
                         !.nextRow = nextRow + 1,
                         !.inserted = nextRow,
                         !.reply.rows = IF Returning(sql) THEN <<nextRow>> ELSE <<>>,
                         !.reply.changed = 1]
       [] cmd = "UPDATE" ->
            [keep EXCEPT !.reply.rows = IF Returning(sql) THEN sortedRows(seen)
                                       ELSE <<>>,
                         !.reply.changed = Cardinality(seen)]
       [] OTHER ->
            [keep EXCEPT !.ss = IF ss.tx
                                THEN [ss EXCEPT !.ins = @ \ seen,
                                                !.del = @ \cup (seen \cap table)]
                                ELSE ss,
                         !.table = IF ss.tx THEN table ELSE table \ seen,
                         !.reply.rows = IF Returning(sql) THEN sortedRows(seen)
                                       ELSE <<>>,
                         !.reply.changed = Cardinality(seen)]

(***************************************************************************)
(* The native client (Bun SQL).                                            *)
(***************************************************************************)
\* sql.reserve(): the sessions it can hand out; none when the pool is closed
\* (the call rejects), and the call waits while every session is reserved
reserve == IF pool = "closed" THEN {} ELSE {s \in Sessions : session[s].st = "idle"}

\* reserved.release(): the session goes back to the pool as it is, its
\* transaction untouched; on a closed session the call changes nothing
release(s) ==
  IF session[s].st = "reserved" THEN [session EXCEPT ![s].st = "idle"] ELSE session

\* reserved.close(): the session is closed, its transaction rolled back
close(s) ==
  [session EXCEPT ![s] = [st |-> "closed", tx |-> FALSE, failed |-> FALSE,
                          ins |-> {}, del |-> {}]]

\* sql.close(): the pool is closed and every session with it
closeAll ==
  [s \in Sessions |->
     [st |-> "closed", tx |-> FALSE, failed |-> FALSE, ins |-> {}, del |-> {}]]

\* sql.reserve() when the pool cannot produce a session: the errors of the
\* client the call may reject with
reserveFailures ==
  {"Connection timeout", "password authentication failed", "Connection refused"}

RECURSIVE sumIssued(_)
sumIssued(i) == IF i = 0 THEN 0 ELSE Len(conn[i].log) + sumIssued(i - 1)

\* statements handed to sessions so far
Issued == sumIssued(Len(conn))

(***************************************************************************)
(* Outcomes of calls.                                                      *)
(***************************************************************************)
NoCall ==
  [op |-> "none", w |-> 0, res |-> "ok", rel |-> FALSE, arg |-> "",
   raised |-> "", sql |-> "", command |-> "", rows |-> <<>>, has |-> FALSE,
   numAffectedRows |-> 0, changed |-> 0]

\* call op on wrapper w (0: on the driver) ended res
Outcome(op, w, res) ==
  [NoCall EXCEPT !.op = op, !.w = w, !.res = res,
                 !.rel = IF w = 0 THEN FALSE ELSE conn[w].released]

\* a call whose awaited client call rejects with err: nothing catches the
\* rejection, with a generic error in its place
rejectedWrapped(op, w, err) ==
  [Outcome(op, w, "BunDialectError") EXCEPT !.raised = err]

\* a call whose awaited client call (unsafe, reserve) rejects with err:
\* nothing catches the rejection, the call rejects with err itself
rejected(op, w, err) ==
  [Outcome(op, w, err) EXCEPT !.raised = err]

ExecOps ==
  {"executeQuery", "beginTransaction", "commitTransaction", "rollbackTransaction"}

(***************************************************************************)
(* connection.ts: BunConnection                                            *)
(***************************************************************************)
\* new BunConnection(reserved); session, released, log and began record
\* its history: the session it was built with, whether releaseConnection
\* was called on it, the statements of it the server ran (issue number,
\* session), and whether it is between a beginTransaction and the commit
\* or rollback
BunConnection(reserved) ==
  [reservedConnection |-> reserved, session |-> reserved, released |-> FALSE,
   log |-> <<>>, began |-> FALSE]

\* an executeQuery that hands its statement to any open session of the pool
targetAnySession(w) ==
  CHOOSE s \in Sessions :
    /\ session[s].st # "closed"
    /\ \A t \in Sessions : session[t].st # "closed" => s >= t

\* the session an executeQuery of wrapper w hands its statement to:
\* this.#reservedConnection
target(w) == conn[w].reservedConnection

\* a QueryResult that keeps the first record only
queryResultFirstRow(reply) ==
  LET rows == IF reply.rows = <<>> THEN <<>> ELSE <<reply.rows[1]>>
  IN IF reply.command \in {"INSERT", "UPDATE", "DELETE"}
     THEN [rows |-> rows, has |-> TRUE, numAffectedRows |-> Len(rows)]
     ELSE [rows |-> rows, has |-> FALSE, numAffectedRows |-> 0]

\* numAffectedRows taken from the server's count of changed rows
queryResultServerCount(reply) ==
  IF reply.command \in {"INSERT", "UPDATE", "DELETE"}
  THEN [rows |-> reply.rows, has |-> TRUE, numAffectedRows |-> reply.changed]
  ELSE [rows |-> reply.rows, has |-> FALSE, numAffectedRows |-> 0]

\* the QueryResult of a reply: rows, and numAffectedRows for the verbs
\* INSERT, UPDATE, DELETE
queryResult(reply) ==
  IF reply.command \in {"INSERT", "UPDATE", "DELETE"}
  THEN [rows |-> reply.rows, has |-> TRUE, numAffectedRows |-> Len(reply.rows)]
  ELSE [rows |-> reply.rows, has |-> FALSE, numAffectedRows |-> 0]

\* what became of the rows once statement sql of wrapper w (method op) ran
\* with outcome x on a session that saw the rows seen
fateAfter(w, op, x, seen) ==
  [r \in Rows |->
     IF x.reply.error # ""
     THEN (IF x.ss.failed /\ r \in x.ss.ins /\ fate[r].st = "open"
           THEN [fate[r] EXCEPT !.st = "failed"]
           ELSE fate[r])
     ELSE IF r = x.inserted
     THEN [w |-> w, st |-> IF conn[w].began THEN "open" ELSE "auto", del |-> FALSE]
     ELSE IF op = "commitTransaction" /\ fate[r].w = w /\ fate[r].st = "open"
     THEN [fate[r] EXCEPT !.st = "committed"]
     ELSE IF op = "rollbackTransaction" /\ fate[r].w = w /\ fate[r].st = "open"
     THEN [fate[r] EXCEPT !.st = "rolledback"]
     ELSE IF x.reply.command = "DELETE" /\ r \in seen
     THEN [fate[r] EXCEPT !.del = TRUE]
     ELSE fate[r]]

\* executeQuery that catches the rejection of a statement inside a
\* transaction, sends rollback on the session, and rejects with the error
executeQueryRollsBack(w, op, arg, sql) ==
  /\ IF conn[w].reservedConnection = NULL
     THEN /\ last' = Outcome(op, w, "TypeError")
          /\ UNCHANGED <<session, table, nextRow, conn, fate>>
     ELSE IF session[target(w)].st = "closed"
     THEN /\ last' = rejected(op, w, "ConnectionClosed")
          /\ UNCHANGED <<session, table, nextRow, conn, fate>>
     ELSE LET s == target(w)
              x == serverExec(s, sql)
              res == queryResult(x.reply)
              caught == x.reply.error # "" /\ x.ss.tx
          IN /\ Issued < MaxStmts
             /\ Command(sql) = "INSERT" => nextRow <= MaxRows
             /\ session' = [session EXCEPT ![s] =
                              IF caught
                              THEN [x.ss EXCEPT !.tx = FALSE, !.failed = FALSE,
                                                !.ins = {}, !.del = {}]
                              ELSE x.ss]
             /\ table' = x.table
             /\ nextRow' = x.nextRow
             /\ fate' = fateAfter(w, op, x, Visible(s))
             /\ conn' = [conn EXCEPT
                  ![w].log = IF caught
                             THEN Append(Append(@, <<Len(@) + 1, s>>),
                                         <<Len(@) + 2, s>>)
                             ELSE Append(@, <<Len(@) + 1, s>>),
                  ![w].began =
                    CASE caught -> FALSE
                      [] x.reply.error # "" -> @
                      [] op = "beginTransaction" -> TRUE
                      [] op \in {"commitTransaction", "rollbackTransaction"} -> FALSE
                      [] OTHER -> @]
             /\ last' = IF x.reply.error # ""
                        THEN rejected(op, w, x.reply.error)
                        ELSE
                        [Outcome(op, w, "ok") EXCEPT
                           !.arg = arg,
                           !.sql = sql,
                           !.command = x.reply.command,
                           !.rows = res.rows,
                           !.has = res.has,
                           !.numAffectedRows = res.numAffectedRows,
                           !.changed = x.reply.changed]
  /\ UNCHANGED <<pool, destroyed>>
  /\ UNCHANGED <<tvars, cvars, ivars>>

\* executeQuery(compiledQuery), called by method op of wrapper w, awaited:
\* await this.#reservedConnection.unsafe(sql, parameters), then the result.
\* A cleared reference throws TypeError before anything is sent; a closed
\* session rejects; else the server runs the statement on the session, and
\* its error, if it raises one, is the rejection of unsafe() and of the call
executeQuery(w, op, arg, sql) ==
  /\ IF conn[w].reservedConnection = NULL
     THEN /\ last' = Outcome(op, w, "TypeError")
          /\ UNCHANGED <<session, table, nextRow, conn, fate>>
     ELSE IF session[target(w)].st = "closed"
     THEN /\ last' = rejected(op, w, "ConnectionClosed")
          /\ UNCHANGED <<session, table, nextRow, conn, fate>>
     ELSE LET s == target(w)
              x == serverExec(s, sql)
              res == queryResult(x.reply)
          IN /\ Issued < MaxStmts
             /\ Command(sql) = "INSERT" => nextRow <= MaxRows
             /\ session' = [session EXCEPT ![s] = x.ss]
             /\ table' = x.table
             /\ nextRow' = x.nextRow
             /\ fate' = fateAfter(w, op, x, Visible(s))
             /\ conn' = [conn EXCEPT
                  ![w].log = Append(@, <<Len(@) + 1, s>>),
                  ![w].began =
                    CASE x.reply.error # "" -> @
                      [] op = "beginTransaction" -> TRUE
                      [] op \in {"commitTransaction", "rollbackTransaction"} -> FALSE
                      [] OTHER -> @]
             /\ last' = IF x.reply.error # ""
                        THEN rejected(op, w, x.reply.error)
                        ELSE
                        [Outcome(op, w, "ok") EXCEPT
                           !.arg = arg,
                           !.sql = sql,
                           !.command = x.reply.command,
                           !.rows = res.rows,
                           !.has = res.has,
                           !.numAffectedRows = res.numAffectedRows,
                           !.changed = x.reply.changed]
  /\ UNCHANGED <<pool, destroyed>>
  /\ UNCHANGED <<tvars, cvars, ivars>>

\* no statement has run yet
NotRun == [w |-> 0, s |-> 0, released |-> FALSE, other |-> 0]

\* the statements bound while calls overlap
OverlapStatements == {"select", "insert"}

\* executeQuery(compiledQuery) of wrapper w up to its await: a cleared
\* reference throws TypeError; else unsafe(sql, parameters) hands the
\* statement to the session and the call is suspended until the server
\* answers (one suspended call for each wrapper)
executeQueryCall(w) ==
  /\ \A q \in inflight : q.w # w
  /\ IF conn[w].reservedConnection = NULL
     THEN /\ last' = Outcome("executeQuery", w, "TypeError")
          /\ UNCHANGED inflight
     ELSE /\ Issued + Cardinality(inflight) < MaxStmts
          /\ \E sql \in OverlapStatements :
               /\ sql = "insert" =>
                    nextRow + Cardinality({q \in inflight : q.sql = "insert"})
                      <= MaxRows
               /\ inflight' = inflight \cup {[w |-> w, s |-> target(w), sql |-> sql]}
          /\ last' = Outcome("executeQuery call", w, "ok")
  /\ UNCHANGED <<pool, session, table, nextRow, conn, destroyed, fate, ran>>
  /\ UNCHANGED <<tvars, cvars>>

\* the server runs the statement q it was handed, on q's session, and
\* the suspended executeQuery resumes with the result
executeQueryResume(q) ==
  LET x == serverExec(q.s, q.sql)
      res == queryResult(x.reply)
      others == {v \in 1..Len(conn) : v # q.w /\ conn[v].reservedConnection = q.s}
  IN /\ q \in inflight
     /\ inflight' = inflight \ {q}
     /\ session' = [session EXCEPT ![q.s] = x.ss]
     /\ table' = x.table
     /\ nextRow' = x.nextRow
     /\ fate' = fateAfter(q.w, "executeQuery", x, Visible(q.s))
     /\ conn' = [conn EXCEPT ![q.w].log = Append(@, <<Len(@) + 1, q.s>>)]
     /\ ran' = [w |-> q.w, s |-> q.s, released |-> conn[q.w].released,
                other |-> IF others = {} THEN 0 ELSE CHOOSE v \in others : TRUE]
     /\ last' = [Outcome("executeQuery", q.w, "ok") EXCEPT
                   !.sql = q.sql,
                   !.command = x.reply.command,
                   !.rows = res.rows,
                   !.has = res.has,
                   !.numAffectedRows = res.numAffectedRows,
                   !.changed = x.reply.changed]
     /\ UNCHANGED <<pool, destroyed>>
     /\ UNCHANGED <<tvars, cvars>>

\* beginTransaction that sends begin whatever the settings
beginStatementPlain(isolationLevel) == "begin"

\* the statement of beginTransaction(settings)
beginStatement(isolationLevel) ==
  IF isolationLevel # ""
  THEN "start transaction isolation level " \o isolationLevel
  ELSE "begin"

commitStatement == "commit"

rollbackSendsCommit == "commit"

rollbackStatement == "rollback"

\* beginTransaction that refuses, without sending, when the session is
\* in a transaction already
connectionBeginTransactionGuarded(w, isolationLevel) ==
  IF conn[w].reservedConnection # NULL /\ session[target(w)].tx
  THEN /\ last' = Outcome("beginTransaction", w, "BunDialectError")
       /\ UNCHANGED <<pool, session, table, nextRow, conn, destroyed, fate>>
       /\ UNCHANGED <<tvars, cvars, ivars>>
  ELSE executeQuery(w, "beginTransaction", isolationLevel,
                    beginStatement(isolationLevel))

\* BunConnection.beginTransaction(settings): executeQuery of the begin
\* statement of the isolation level, awaited
connectionBeginTransaction(w, isolationLevel) ==
  executeQuery(w, "beginTransaction", isolationLevel,
               beginStatement(isolationLevel))

\* BunConnection.commitTransaction(): executeQuery of commit, awaited
connectionCommitTransaction(w) ==
  executeQuery(w, "commitTransaction", "", commitStatement)

\* rollbackTransaction that hands the session back to the pool once the
\* rollback has run
connectionRollbackTransactionReleases(w) ==
  IF conn[w].reservedConnection = NULL \/ session[target(w)].st = "closed"
  THEN executeQuery(w, "rollbackTransaction", "", rollbackStatement)
  ELSE LET s == target(w)
           x == serverExec(s, rollbackStatement)
       IN /\ Issued < MaxStmts
          /\ session' = [session EXCEPT ![s] = [x.ss EXCEPT !.st = "idle"]]
          /\ conn' = [conn EXCEPT
                        ![w].log = Append(@, <<Len(@) + 1, s>>),
                        ![w].began = FALSE]
          /\ fate' = fateAfter(w, "rollbackTransaction", x, Visible(s))
          /\ last' = [Outcome("rollbackTransaction", w, "ok") EXCEPT
                        !.sql = rollbackStatement,
                        !.command = x.reply.command]
          /\ UNCHANGED <<pool, table, nextRow, destroyed>>
          /\ UNCHANGED <<tvars, cvars, ivars>>

\* BunConnection.rollbackTransaction(): executeQuery of rollback, awaited
connectionRollbackTransaction(w) ==
  executeQuery(w, "rollbackTransaction", "", rollbackStatement)

\* streamQuery that clears the reference before it fails
streamQueryClearsReference(w) ==
  /\ conn' = [conn EXCEPT ![w].reservedConnection = NULL]
  /\ last' = Outcome("streamQuery", w, "BunDialectError")
  /\ UNCHANGED <<pool, session, table, nextRow, destroyed, fate>>
  /\ UNCHANGED <<tvars, cvars, ivars>>

\* streamQuery that looks at the session before it fails
streamQueryTouchesSession(w) ==
  /\ last' = IF conn[w].reservedConnection = NULL
             THEN Outcome("streamQuery", w, "TypeError")
             ELSE Outcome("streamQuery", w, "BunDialectError")
  /\ UNCHANGED <<pool, session, table, nextRow, conn, destroyed, fate>>
  /\ UNCHANGED <<tvars, cvars, ivars>>

\* streamQuery(): the generator's first step throws
\* BunDialectError("streamQuery is not supported"); it yields nothing and
\* touches neither the reference nor the session
streamQuery(w) ==
  /\ last' = Outcome("streamQuery", w, "BunDialectError")
  /\ UNCHANGED <<pool, session, table, nextRow, conn, destroyed, fate>>
  /\ UNCHANGED <<tvars, cvars, ivars>>

\* releaseConnection() of an earlier revision: close() instead of release()
releaseConnectionClose(w) ==
  /\ IF conn[w].reservedConnection = NULL
     THEN /\ last' = Outcome("releaseConnection", w, "TypeError")
          /\ UNCHANGED <<session, conn>>
     ELSE /\ session' = close(conn[w].reservedConnection)
          /\ conn' = [conn EXCEPT ![w].reservedConnection = NULL,
                                  ![w].released = TRUE]
          /\ last' = Outcome("releaseConnection", w, "ok")
  /\ UNCHANGED <<pool, table, nextRow, destroyed, fate>>
  /\ UNCHANGED <<tvars, cvars, ivars>>

\* releaseConnection() that returns the session and keeps the reference
releaseConnectionKeepRef(w) ==
  /\ conn[w].reservedConnection # NULL
  /\ session' = release(conn[w].reservedConnection)
  /\ conn' = [conn EXCEPT ![w].released = TRUE]
  /\ last' = Outcome("releaseConnection", w, "ok")
  /\ UNCHANGED <<pool, table, nextRow, destroyed, fate>>
  /\ UNCHANGED <<tvars, cvars, ivars>>

\* releaseConnection() that sends rollback on the session before it hands
\* the session back
releaseConnectionRollsBack(w) ==
  /\ IF conn[w].reservedConnection = NULL
     THEN /\ last' = Outcome("releaseConnection", w, "TypeError")
          /\ UNCHANGED <<session, conn>>
     ELSE LET s == conn[w].reservedConnection
              x == serverExec(s, rollbackStatement)
          IN /\ session' = [session EXCEPT ![s] =
                              IF session[s].st = "reserved"
                              THEN [x.ss EXCEPT !.st = "idle"]
                              ELSE session[s]]
             /\ conn' = [conn EXCEPT ![w].reservedConnection = NULL,
                                     ![w].released = TRUE]
             /\ last' = Outcome("releaseConnection", w, "ok")
  /\ UNCHANGED <<pool, table, nextRow, destroyed, fate>>
  /\ UNCHANGED <<tvars, cvars, ivars>>

\* releaseConnection() that remembers its session and hands it back at
\* every call
releaseConnectionEveryCall(w) ==
  /\ session' = release(conn[w].session)
  /\ conn' = [conn EXCEPT ![w].reservedConnection = NULL,
                          ![w].released = TRUE]
  /\ last' = Outcome("releaseConnection", w, "ok")
  /\ UNCHANGED <<pool, table, nextRow, destroyed, fate>>
  /\ UNCHANGED <<tvars, cvars, ivars>>

\* releaseConnection(): this.#reservedConnection.release(), then the
\* reference is cleared; on a cleared reference the call throws TypeError
releaseConnection(w) ==
  /\ IF conn[w].reservedConnection = NULL
     THEN /\ last' = Outcome("releaseConnection", w, "TypeError")
          /\ UNCHANGED <<session, conn>>
     ELSE /\ session' = release(conn[w].reservedConnection)
          /\ conn' = [conn EXCEPT ![w].reservedConnection = NULL,
                                  ![w].released = TRUE]
          /\ last' = Outcome("releaseConnection", w, "ok")
  /\ UNCHANGED <<pool, table, nextRow, destroyed, fate>>
  /\ UNCHANGED <<tvars, cvars, ivars>>

(***************************************************************************)
(* The configuration: types.ts, dialect.ts, and the constructor of         *)
(* BunDriver in driver.ts.  Of the properties of BunDialectConfig the      *)
(* model keeps url, max and tls; the others are read the same way.         *)
(***************************************************************************)
ConfigFields == {"url", "max", "tls"}

\* the configurations a caller writes; Undefined is a property left out
Configs ==
  [url : {[t |-> "string", v |-> "postgres://a/db"],
          [t |-> "string", v |-> "postgres://b/db"]},
   max : {Undefined, Num(1), Num(20)},
   tls : {Undefined, Bool(TRUE)}]

\* the values a later assignment may give property f
ConfigValues(f) == {c[f] : c \in Configs}

NoOptions == [f \in ConfigFields |-> Undefined]

\* no object yet behind a reference
NoObject == ConfigObject(NoOptions)

\* new SQL({ url: this.#config.url, ... }): the options the pool is built
\* with, read from the driver's #config once
SQLOptions(config) == [f \in ConfigFields |-> config.fields[f]]

\* the configuration of the driver of the other specifications
DefaultConfig ==
  [url |-> [t |-> "string", v |-> "postgres://a/db"], max |-> Undefined,
   tls |-> Undefined]

\* new BunDialect(config): this.#config = freeze({ ...config })
BunDialect ==
  /\ cpc = "config"
  /\ heap' = [heap EXCEPT ![2] = freeze(spread(heap[1]))]
  /\ cpc' = "dialect"
  /\ UNCHANGED <<poolOptions, assigned>>
  /\ UNCHANGED <<tvars, dvars, ivars>>

\* createDriver(): new BunDriver(this.#config), whose constructor sets
\* this.#config = freeze({ ...config }) and builds the pool from it
createDriver ==
  /\ cpc = "dialect"
  /\ LET config == freeze(spread(heap[2]))
     IN /\ heap' = [heap EXCEPT ![3] = config]
        /\ poolOptions' = SQLOptions(config)
  /\ pool' = "open"
  /\ cpc' = "driver"
  /\ UNCHANGED assigned
  /\ UNCHANGED <<session, table, nextRow, conn, destroyed, fate, last>>
  /\ UNCHANGED <<tvars, ivars>>

\* the caller assigns to a property of the object it passed (reference
\* 1), or some code assigns to a property of a #config object (2, 3)
assignProperty(r, f, v) ==
  /\ r = 2 => cpc \in {"dialect", "driver"}
  /\ r = 3 => cpc = "driver"
  /\ heap' = [heap EXCEPT ![r] = assign(@, f, v)]
  /\ assigned' = [r |-> r, res |-> IF heap[r].frozen THEN "TypeError" ELSE "ok"]
  /\ UNCHANGED <<poolOptions, cpc>>
  /\ UNCHANGED <<tvars, dvars, ivars>>

(***************************************************************************)
(* driver.ts: BunDriver                                                    *)
(***************************************************************************)
Wrappers == 1..Len(conn)

\* init(): noop
init ==
  /\ UNCHANGED dvars
  /\ UNCHANGED <<tvars, cvars, ivars>>

\* acquireConnection() that wraps a session of the pool without reserving it
acquireConnectionShared ==
  /\ IF pool = "closed"
     THEN /\ last' = rejected("acquireConnection", 0, "ConnectionClosed")
          /\ UNCHANGED conn
     ELSE /\ Len(conn) < MaxWrappers
          /\ \E s \in Sessions :
               /\ session[s].st # "closed"
               /\ conn' = Append(conn, BunConnection(s))
               /\ last' = Outcome("acquireConnection", 0, "ok")
  /\ UNCHANGED <<pool, session, table, nextRow, destroyed, fate>>
  /\ UNCHANGED <<tvars, cvars, ivars>>

\* acquireConnection() that calls reserve() again when it rejects, until a
\* session comes
acquireConnectionRetry ==
  /\ IF pool = "closed"
     THEN /\ last' = rejected("acquireConnection", 0, "ConnectionClosed")
          /\ UNCHANGED <<session, conn>>
     ELSE /\ Len(conn) < MaxWrappers
          /\ \E s \in reserve :
               /\ session' = [session EXCEPT ![s].st = "reserved"]
               /\ conn' = Append(conn, BunConnection(s))
               /\ \E err \in reserveFailures \cup {""} :
                    last' = [Outcome("acquireConnection", 0, "ok") EXCEPT
                               !.raised = err]
  /\ UNCHANGED <<pool, table, nextRow, destroyed, fate>>
  /\ UNCHANGED <<tvars, cvars, ivars>>

\* acquireConnection(): reserved = await this.#sql.reserve(), wrapped in a
\* new BunConnection; the rejection of reserve() is the call's
acquireConnection ==
  /\ IF pool = "closed"
     THEN /\ last' = rejected("acquireConnection", 0, "ConnectionClosed")
          /\ UNCHANGED <<session, conn>>
     ELSE \/ /\ Len(conn) < MaxWrappers
             /\ \E s \in reserve :
                  /\ session' = [session EXCEPT ![s].st = "reserved"]
                  /\ conn' = Append(conn, BunConnection(s))
                  /\ last' = Outcome("acquireConnection", 0, "ok")
          \/ /\ \E err \in reserveFailures :
                  last' = rejected("acquireConnection", 0, err)
             /\ UNCHANGED <<session, conn>>
  /\ UNCHANGED <<pool, table, nextRow, destroyed, fate>>
  /\ UNCHANGED <<tvars, cvars, ivars>>

\* beginTransaction that resolves without calling the connection
beginTransactionNotSent(w) ==
  /\ last' = Outcome("beginTransaction", w, "ok")
  /\ UNCHANGED <<pool, session, table, nextRow, conn, destroyed, fate>>
  /\ UNCHANGED <<tvars, cvars, ivars>>

\* BunDriver.beginTransaction(connection, settings):
\* await connection.beginTransaction(settings)
beginTransaction(w) ==
  \E isolationLevel \in Settings : connectionBeginTransaction(w, isolationLevel)

\* commitTransaction that catches the error of a released connection
commitTransactionCatches(w) ==
  IF conn[w].reservedConnection = NULL
  THEN /\ last' = Outcome("commitTransaction", w, "ok")
       /\ UNCHANGED <<pool, session, table, nextRow, conn, destroyed, fate>>
       /\ UNCHANGED <<tvars, cvars, ivars>>
  ELSE connectionCommitTransaction(w)

\* BunDriver.commitTransaction(connection):
\* await connection.commitTransaction()
commitTransaction(w) == connectionCommitTransaction(w)

\* BunDriver.rollbackTransaction(connection):
\* await connection.rollbackTransaction()
rollbackTransaction(w) == connectionRollbackTransaction(w)

\* BunDriver.releaseConnection(connection): connection.releaseConnection()
\* inside an async method, so that its throw is the rejection of the call
driverReleaseConnection(w) == releaseConnection(w)

\* connection.executeQuery(compiledQuery) of a data statement, by the caller
executeStatement(w) ==
  \E sql \in DataStatements : executeQuery(w, "executeQuery", "", sql)

\* destroy() that leaves the pool open
destroyNoClose ==
  /\ destroyed' = TRUE
  /\ last' = Outcome("destroy", 0, "ok")
  /\ UNCHANGED <<pool, session, table, nextRow, conn, fate>>
  /\ UNCHANGED <<tvars, cvars, ivars>>

\* destroy() that closes the pool and its idle sessions only
destroyKeepsReserved ==
  /\ pool' = "closed"
  /\ session' = [s \in Sessions |->
                   IF session[s].st = "idle"
                   THEN [session[s] EXCEPT !.st = "closed"]
                   ELSE session[s]]
  /\ destroyed' = TRUE
  /\ last' = Outcome("destroy", 0, "ok")
  /\ UNCHANGED <<table, nextRow, conn, fate>>
  /\ UNCHANGED <<tvars, cvars, ivars>>

\* destroy(): await this.#sql.close()
destroy ==
  /\ pool' = "closed"
  /\ session' = closeAll
  /\ destroyed' = TRUE
  /\ last' = Outcome("destroy", 0, "ok")
  /\ UNCHANGED <<table, nextRow, conn, fate>>
  /\ UNCHANGED <<tvars, cvars, ivars>>

(***************************************************************************)
(* The specifications.                                                     *)
(***************************************************************************)
\* new BunDriver(config): the pool is open, no session is reserved
DInit ==
  /\ pool = "open"
  /\ session = [s \in Sessions |->
                  [st |-> "idle", tx |-> FALSE, failed |-> FALSE,
                   ins |-> {}, del |-> {}]]
  /\ table = {}
  /\ nextRow = 1
  /\ conn = <<>>
  /\ destroyed = FALSE
  /\ fate = [r \in Rows |-> [w |-> 0, st |-> "none", del |-> FALSE]]
  /\ last = NoCall
  /\ heap = [r \in 1..3 |->
               IF r = 1 THEN ConfigObject(DefaultConfig)
               ELSE freeze(spread(ConfigObject(DefaultConfig)))]
  /\ poolOptions = DefaultConfig
  /\ cpc = "driver"
  /\ assigned = [r |-> 0, res |-> "ok"]
  /\ inflight = {}
  /\ ran = NotRun

\* the driver and its connections; no parameter is being transformed
Init ==
  /\ DInit
  /\ value = Undefined
  /\ wire = Undefined
  /\ stored = Undefined
  /\ tpc = "idle"

Next ==
  \/ init
  \/ acquireConnection
  \/ destroy
  \/ \E w \in Wrappers : beginTransaction(w)
  \/ \E w \in Wrappers : commitTransaction(w)
  \/ \E w \in Wrappers : rollbackTransaction(w)
  \/ \E w \in Wrappers : executeStatement(w)
  \/ \E w \in Wrappers : streamQuery(w)
  \/ \E w \in Wrappers : driverReleaseConnection(w)

Spec == Init /\ [][Next]_vars

\* calls that overlap: executeQuery is called and resumes in two steps,
\* and acquireConnection and releaseConnection may come between them
NextOverlap ==
  \/ acquireConnection
  \/ \E w \in Wrappers : executeQueryCall(w)
  \/ \E q \in inflight : executeQueryResume(q)
  \/ \E w \in Wrappers : driverReleaseConnection(w)

SpecOverlap == Init /\ [][NextOverlap]_vars

\* the value transformer alone, over every parameter of the model
InitTransform == DInit /\ TInit

NextTransform ==
  \/ Transform /\ UNCHANGED <<dvars, cvars, ivars>>
  \/ TransformParameters /\ UNCHANGED <<dvars, cvars, ivars>>
  \/ ServerStore /\ UNCHANGED <<dvars, cvars, ivars>>
  \/ TransformJsonbArray /\ UNCHANGED <<dvars, cvars, ivars>>
  \/ ServerStoreJsonb /\ UNCHANGED <<dvars, cvars, ivars>>
  \/ TransformAgain /\ UNCHANGED <<dvars, cvars, ivars>>

SpecTransform == InitTransform /\ [][NextTransform]_vars

\* the caller has written a configuration object; no dialect, no driver
\* and no pool exist yet
InitConfig ==
  /\ \E c \in Configs :
       heap = [r \in 1..3 |-> IF r = 1 THEN ConfigObject(c) ELSE NoObject]
  /\ poolOptions = NoOptions
  /\ cpc = "config"
  /\ assigned = [r |-> 0, res |-> "ok"]
  /\ inflight = {}
  /\ ran = NotRun
  /\ pool = "none"
  /\ session = [s \in Sessions |->
                  [st |-> "idle", tx |-> FALSE, failed |-> FALSE,
                   ins |-> {}, del |-> {}]]
  /\ table = {}
  /\ nextRow = 1
  /\ conn = <<>>
  /\ destroyed = FALSE
  /\ fate = [r \in Rows |-> [w |-> 0, st |-> "none", del |-> FALSE]]
  /\ last = NoCall
  /\ value = Undefined
  /\ wire = Undefined
  /\ stored = Undefined
  /\ tpc = "idle"

NextConfig ==
  \/ BunDialect
  \/ createDriver
  \/ \E r \in 1..3 : \E f \in ConfigFields : \E v \in ConfigValues(f) :
       assignProperty(r, f, v)

\* construction of the dialect and the driver from a configuration
SpecConfig == InitConfig /\ [][NextConfig]_vars

(***************************************************************************)
(* Properties.                                                             *)
(***************************************************************************)
Held(w) == conn[w].reservedConnection

InRows(r, rows) == \E i \in 1..Len(rows) : rows[i] = r

\* C1: once releaseConnection has been called on a wrapper, its reference
\* stays cleared, and every executeQuery on it (directly or through begin,
\* commit, rollback) ends in TypeError and changes no session, no table
\* and no wrapper: nothing is sent
C1_ReleasedWrapperRejects ==
  [][\A w \in Wrappers :
       conn[w].released =>
         /\ conn'[w].reservedConnection = NULL
         /\ conn'[w].log = conn[w].log
         /\ (last' # last /\ last'.w = w /\ last'.op \in ExecOps) =>
              /\ last'.res = "TypeError"
              /\ UNCHANGED <<pool, session, table, nextRow, conn>>]_vars

\* C1 happens: a released wrapper's executeQuery failed while a later
\* wrapper holds the session it gave back
C1_Witness ==
  /\ last.op = "executeQuery"
  /\ last.rel
  /\ last.res = "TypeError"
  /\ \E w \in Wrappers :
       /\ w > last.w
       /\ Held(w) # NULL
       /\ Held(w) = conn[last.w].session

\* C2: once destroy() has completed, the driver stays destroyed, no
\* wrapper is created any more, and every acquireConnection fails
C2_DestroyedIsTerminal ==
  [][destroyed =>
       /\ destroyed'
       /\ Len(conn') = Len(conn)
       /\ (last' # last /\ last'.op = "acquireConnection") => last'.res # "ok"]_vars

\* C2 happens: an acquireConnection after destroy() failed, on a driver
\* that had handed out wrappers before
C2_Witness ==
  /\ destroyed
  /\ last.op = "acquireConnection"
  /\ last.res = "ConnectionClosed"
  /\ Len(conn) >= 1

\* C3: a select sees no row whose inserting wrapper ran beginTransaction,
\* the insert, then rollbackTransaction; and it sees every row whose
\* inserting wrapper ran beginTransaction, the insert, then
\* commitTransaction, unless a delete has removed the row since
C3_RollbackAbsentCommitPresent ==
  (last.op = "executeQuery" /\ last.sql = "select" /\ last.res = "ok") =>
    \A r \in Rows :
      /\ fate[r].st = "rolledback" => ~InRows(r, last.rows)
      /\ (fate[r].st = "committed" /\ ~fate[r].del) => InRows(r, last.rows)

\* C3 happens: a wrapper acquired after the inserting one selects once the
\* insert was rolled back
C3_Witness ==
  /\ last.op = "executeQuery"
  /\ last.sql = "select"
  /\ last.res = "ok"
  /\ \E r \in Rows :
       /\ fate[r].st = "rolledback"
       /\ fate[r].w < last.w
       /\ ~InRows(r, last.rows)

\* C4: two wrappers on which releaseConnection has not been called hold
\* two different sessions, each the one it was built with
C4_ExclusiveSession ==
  \A w1 \in Wrappers : \A w2 \in Wrappers :
    (w1 # w2 /\ ~conn[w1].released /\ ~conn[w2].released) =>
      /\ Held(w1) # NULL
      /\ Held(w2) # NULL
      /\ Held(w1) # Held(w2)

\* C4 happens: two unreleased wrappers at once, each with statements run
C4_Witness ==
  /\ Len(conn) = 2
  /\ \A w \in Wrappers : ~conn[w].released /\ Len(conn[w].log) >= 1

C6_ReleaseReturnsSession ==
  /\ pool = "open" =>
       \A s \in Sessions :
         /\ session[s].st \in {"idle", "reserved"}
         /\ session[s].st = "reserved" <=> \E w \in Wrappers : Held(w) = s
  /\ \A w \in Wrappers : conn[w].released => Held(w) = NULL

\* C6 happens: a session given back by one wrapper is held by a later one
C6_Witness ==
  /\ pool = "open"
  /\ \E w1 \in Wrappers : \E w2 \in Wrappers :
       /\ w1 < w2
       /\ conn[w1].released
       /\ Held(w2) = conn[w1].session
       /\ last.op = "acquireConnection"

\* C7: a successful executeQuery carries numAffectedRows exactly for the
\* verbs INSERT, UPDATE, DELETE, then equal to the number of rows returned,
\* so 0 without RETURNING
C7_NumAffectedRows ==
  (last.op \in ExecOps /\ last.res = "ok") =>
    /\ last.has <=> last.command \in {"INSERT", "UPDATE", "DELETE"}
    /\ last.has => last.numAffectedRows = Len(last.rows)
    /\ (last.has /\ ~Returning(last.sql)) => last.numAffectedRows = 0

\* C7 happens: a delete without RETURNING that removed a row reports 0
C7_Witness ==
  /\ last.op = "executeQuery"
  /\ last.sql = "delete"
  /\ last.res = "ok"
  /\ last.changed >= 1
  /\ last.has
  /\ last.numAffectedRows = 0

\* the text of a string element as the specification words it: in one pass, each
\* backslash doubled and each double quote preceded by a backslash, the
\* whole in double quotes
QuotedText(s) ==
  LET piece == [i \in 1..Len(s) |->
                  IF s[i] = BS THEN <<BS, BS>>
                  ELSE IF s[i] = DQ THEN <<BS, DQ>>
                  ELSE <<s[i]>>]
      Cat[k \in 0..Len(s)] == IF k = 0 THEN <<>> ELSE Cat[k - 1] \o piece[k]
  IN <<DQ>> \o Cat[Len(s)] \o <<DQ>>

\* the ordinary string form of the numbers and booleans bound in the model
PlainText(e) ==
  CASE e = Num(0) -> <<"0">>
    [] e = Num(1) -> <<"1">>
    [] e = Num(2) -> <<"2">>
    [] e = Num(3) -> <<"3">>
    [] e = Num(7) -> <<"7">>
    [] e = Num(-12) -> <<"-", "1", "2">>
    [] e = Num(100) -> <<"1", "0", "0">>
    [] e = Bool(TRUE) -> <<"t", "r", "u", "e">>
    [] e = Bool(FALSE) -> <<"f", "a", "l", "s", "e">>

\* the literal {e1,e2,...} of the elements a, a null element written tok
LiteralText(a, tok) ==
  LET text == [i \in 1..Len(a) |->
                 CASE a[i].t = "string" -> QuotedText(a[i].v)
                   [] a[i].t = "null" -> tok
                   [] OTHER -> PlainText(a[i])]
      Cat[k \in 0..Len(a)] ==
        IF k = 0 THEN <<>>
        ELSE IF k = 1 THEN text[1]
        ELSE Cat[k - 1] \o <<",">> \o text[k]
  IN <<"{">> \o Cat[Len(a)] \o <<"}">>

FlatArray(v) ==
  /\ v.t = "array"
  /\ \A i \in 1..Len(v.v) : v.v[i].t \in {"string", "number", "boolean", "null"}

StringArray(v) ==
  /\ v.t = "array"
  /\ \A i \in 1..Len(v.v) : v.v[i].t = "string"

C9_ElementRoundTrip ==
  (tpc \in {"sent", "stored"} /\ StringArray(value) /\ Len(value.v) = 1) =>
    /\ wire.v[1] = "{"
    /\ wire.v[Len(wire.v)] = "}"
    /\ unescapeElement(SubSeq(wire.v, 2, Len(wire.v) - 1)) = value.v[1]

\* C9 happens: a string of a backslash, a double quote and a letter
C9_Witness ==
  /\ tpc = "sent"
  /\ value = Arr(<<Str(<<BS, DQ, "a">>)>>)
  /\ wire.v = <<"{", DQ, BS, BS, BS, DQ, "a", DQ, "}">>

\* C10: the server reads the literal of an array of strings (commas,
\* braces, quotes, backslashes in them or not) as the same strings in the
\* same order; the empty array is written {} and read as the empty array,
\* not as null
C10_StringArrayRoundTrip ==
  (tpc = "stored" /\ StringArray(value)) =>
    /\ stored = value
    /\ value.v = <<>> => (wire.v = <<"{", "}">> /\ stored = Arr(<<>>))

\* C10 happens: the array of the test with a comma and a quote in its
\* strings has been read back
C10_Witness ==
  /\ tpc = "stored"
  /\ value = Arr(<<Str(<<"a">>), Str(<<"b", ",", "c">>), Str(<<"d", DQ, "e">>)>>)
  /\ stored = value

NullableStringArray(v) ==
  /\ v.t = "array"
  /\ \A i \in 1..Len(v.v) : v.v[i].t \in {"string", "null"}

\* C11: for an array of strings and nulls, transformValue writes each null
\* as an unquoted null token at its position and each string in double
\* quotes (the strings NULL, null and the empty string too), and the
\* server reads null at exactly the positions where the array had null,
\* and every string as it was
C11_NullAtItsPositions ==
  (tpc = "stored" /\ NullableStringArray(value)) =>
    /\ \E tok \in {<<"N", "U", "L", "L">>, <<"n", "u", "l", "l">>} :
         wire.v = LiteralText(value.v, tok)
    /\ stored.t = "array"
    /\ Len(stored.v) = Len(value.v)
    /\ \A i \in 1..Len(value.v) :
         /\ stored.v[i] = Null <=> value.v[i] = Null
         /\ value.v[i].t = "string" => stored.v[i] = value.v[i]

\* C11 happens: the string NULL next to a null has been read back
C11_Witness ==
  /\ tpc = "stored"
  /\ value = Arr(<<Str(<<"N", "U", "L", "L">>), Null>>)
  /\ wire.v = <<"{", DQ, "N", "U", "L", "L", DQ, ",", "N", "U", "L", "L", "}">>
  /\ stored = value

\* C12: transformValue returns null, undefined, a number, a boolean, a
\* string and a plain object as they are; an array, and only an array,
\* comes back as something else (a text)
C12_PassThrough ==
  tpc \in {"sent", "stored"} =>
    /\ value.t # "array" => wire = value
    /\ value.t = "array" => (wire.t = "string" /\ wire # value)

\* C12 happens: the object of the JSONB tests went through as it is
C12_Witness ==
  /\ tpc = "sent"
  /\ value.t = "object"
  /\ Len(value.v) = 4
  /\ wire = value

\* the JSON text of the plain objects of the model
JsonText(o) ==
  CASE o = Obj(<<>>) -> <<"{", "}">>
    [] o = Obj(<< <<(<<"i", "d">>), Num(1)>> >>) ->
         <<"{", DQ, "i", "d", DQ, ":", "1", "}">>
    [] o = Obj(<< <<(<<"k">>), Str(<<DQ>>)>> >>) ->
         <<"{", DQ, "k", DQ, ":", DQ, BS, DQ, DQ, "}">>
    [] o = Obj(<< <<(<<"k">>), Str(<<BS>>)>> >>) ->
         <<"{", DQ, "k", DQ, ":", DQ, BS, BS, DQ, "}">>
    [] o = TestItem ->
         <<"{", DQ, "t", "y", "p", "e", DQ, ":", DQ, "s", "a", "m", "p", "l", "e", DQ,
           ",", DQ, "v", "a", "l", "u", "e", DQ, ":", "4", "2",
           ",", DQ, "a", "c", "t", "i", "v", "e", DQ, ":", "t", "r", "u", "e",
           ",", DQ, "l", "a", "b", "e", "l", DQ, ":", DQ, "x", DQ, "}">>

\* the literal {elem1,elem2,...} of the JSONB[] helper: a non-null item its
\* JSON text escaped and quoted, a null item the bare token null
JsonbLiteralText(a) ==
  LET text == [i \in 1..Len(a) |->
                 IF a[i] = Null THEN <<"n", "u", "l", "l">>
                 ELSE QuotedText(JsonText(a[i]))]
      Cat[k \in 0..Len(a)] ==
        IF k = 0 THEN <<>>
        ELSE IF k = 1 THEN text[1]
        ELSE Cat[k - 1] \o <<",">> \o text[k]
  IN <<"{">> \o Cat[Len(a)] \o <<"}">>

\* C13: jsonbArray(items) is the text {elem1,elem2,...}, one element per
\* item in order: a non-null item its JSON text with backslashes doubled
\* and double quotes backslash-escaped, in double quotes; a null item the
\* bare token null; no item at all gives {}
C13_JsonbArrayText ==
  tpc \in {"sent jsonb", "stored jsonb"} =>
    /\ wire.t = "string"
    /\ wire.v = JsonbLiteralText(value.v)
    /\ value.v = <<>> => wire.v = <<"{", "}">>

\* C13 happens: an object whose string holds a double quote, and a null
C13_Witness ==
  /\ tpc = "sent jsonb"
  /\ value = Arr(<<Obj(<< <<(<<"k">>), Str(<<DQ>>)>> >>), Null>>)
  /\ wire.v = <<"{", DQ, "{", BS, DQ, "k", BS, DQ, ":", BS, DQ, BS, BS, BS, DQ,
                BS, DQ, "}", DQ, ",", "n", "u", "l", "l", "}">>

ObjectsOnly(v) ==
  /\ v.t = "array"
  /\ \A i \in 1..Len(v.v) : v.v[i].t = "object"

\* C14: the server reads jsonbArray's text of a sequence of objects as a
\* sequence of the same length whose elements are, in order, the JSON
\* texts of the objects, each the JSON text of that object and of no other;
\* jsonbArray([]) is read as the empty sequence
C14_JsonbArrayRoundTrip ==
  (tpc = "stored jsonb" /\ ObjectsOnly(value)) =>
    /\ stored.t = "array"
    /\ Len(stored.v) = Len(value.v)
    /\ \A i \in 1..Len(value.v) :
         /\ stored.v[i] = Str(JsonText(value.v[i]))
         /\ \A o \in Objects : JsonText(o) = stored.v[i].v => o = value.v[i]
    /\ value.v = <<>> => stored = Arr(<<>>)

\* C14 happens: the one-element sequence of the JSONB tests was read back
C14_Witness ==
  /\ tpc = "stored jsonb"
  /\ value = Arr(<<TestItem>>)
  /\ stored = Arr(<<Str(JsonText(TestItem))>>)

\* the JSON text of an array of the model's objects: [text1,text2,...]
JsonArrayText(a) ==
  LET Cat[k \in 0..Len(a)] ==
        IF k = 0 THEN <<>>
        ELSE IF k = 1 THEN JsonText(a[1])
        ELSE Cat[k - 1] \o <<",">> \o JsonText(a[k])
  IN <<"[">> \o Cat[Len(a)] \o <<"]">>

\* C15: an array of plain objects bound as it is reaches the native client
\* as one JSON document: the array itself, or its JSON text
C15_BareObjectArrayIsJson ==
  (tpc \in {"sent", "stored"} /\ ObjectsOnly(value) /\ Len(value.v) >= 1) =>
    \/ wire = value
    \/ wire = Str(JsonArrayText(value.v))

C17_ErrorsPropagate ==
  [][(last'.op \in ExecOps /\ last'.raised # "") =>
       /\ last'.res = last'.raised
       /\ table' = table
       /\ nextRow' = nextRow
       /\ last'.raised \in ServerErrors =>
            conn'[last'.w].log =
              Append(conn[last'.w].log,
                     <<Len(conn[last'.w].log) + 1, conn[last'.w].session>>)
       /\ last'.raised \notin ServerErrors => conn' = conn]_vars

\* C17 happens: beginTransaction inside an aborted transaction rejected
\* with the server's error
C17_Witness ==
  /\ last.op = "beginTransaction"
  /\ last.raised = AbortedError
  /\ last.res = AbortedError

\* C18: when reserve() rejects, acquireConnection rejects with that very
\* error and returns no wrapper; no session gets reserved
C18_AcquireErrorsPropagate ==
  [][(last'.op = "acquireConnection" /\ last'.raised # "") =>
       /\ last'.res = last'.raised
       /\ conn' = conn
       /\ session' = session]_vars

\* C18 happens: the open pool refused a connection after it had given one
C18_Witness ==
  /\ pool = "open"
  /\ last.op = "acquireConnection"
  /\ last.raised = "Connection refused"
  /\ last.res = "Connection refused"
  /\ Len(conn) >= 1

\* C19: a successful beginTransaction has sent one statement, start
\* transaction isolation level <level> when the settings carry a level and
\* begin when they carry none; commitTransaction one commit;
\* rollbackTransaction one rollback
C19_TransactionStatements ==
  [][(last'.res = "ok" /\ last'.op \in ExecOps \ {"executeQuery"}) =>
       /\ last'.op = "beginTransaction" =>
            last'.sql = IF last'.arg # ""
                        THEN "start transaction isolation level " \o last'.arg
                        ELSE "begin"
       /\ last'.op = "commitTransaction" => last'.sql = "commit"
       /\ last'.op = "rollbackTransaction" => last'.sql = "rollback"
       /\ Len(conn'[last'.w].log) = Len(conn[last'.w].log) + 1]_vars

\* C19 happens: beginTransaction with isolation level serializable
C19_Witness ==
  /\ last.op = "beginTransaction"
  /\ last.res = "ok"
  /\ last.arg = "serializable"
  /\ last.sql = "start transaction isolation level serializable"
  /\ last.command = "START TRANSACTION"

\* the step is a successful call op on a wrapper that holds session s
StepOn(op, s) ==
  /\ last'.op = op
  /\ last'.res = "ok"
  /\ conn[last'.w].reservedConnection = s

\* what C20 says of begin, commit, rollback and of the other operations,
\* for the sessions that are not closed
TransactionSteps ==
  \A s \in Sessions :
    session'[s].st # "closed" =>
      /\ StepOn("beginTransaction", s) => session'[s].tx
      /\ StepOn("commitTransaction", s) => ~session'[s].tx
      /\ StepOn("rollbackTransaction", s) => ~session'[s].tx
      /\ session'[s].tx # session[s].tx =>
           \/ StepOn("beginTransaction", s)
           \/ StepOn("commitTransaction", s)
           \/ StepOn("rollbackTransaction", s)

\* C20 as stated: a session has no transaction open when it is acquired,
\* has one open after a successful beginTransaction, none after a
\* successful commitTransaction or rollbackTransaction, and nothing else
\* changes that
C20_AsStated ==
  [][/\ TransactionSteps
     /\ (last'.op = "acquireConnection" /\ last'.res = "ok"
           /\ Len(conn') > Len(conn)) =>
          ~session'[conn'[Len(conn')].session].tx]_vars

\* C20 amended: a session no wrapper has held yet has no transaction open;
\* a session has one open after a successful beginTransaction, none after
\* a successful commitTransaction or rollbackTransaction, and nothing else
\* changes that: acquireConnection and releaseConnection leave it as it is
C20_TransactionState ==
  [][/\ TransactionSteps
     /\ \A s \in Sessions :
          (\A w \in 1..Len(conn') : conn'[w].session # s) => ~session'[s].tx
     /\ last'.op \in {"acquireConnection", "releaseConnection", "streamQuery"} =>
          \A s \in Sessions : session'[s].tx = session[s].tx]_vars

\* C20 happens: a transaction was begun, a statement run in it, and it was
\* committed: the session has none open
C20_Witness ==
  /\ last.op = "commitTransaction"
  /\ last.res = "ok"
  /\ last.command = "COMMIT"
  /\ conn[last.w].reservedConnection # NULL
  /\ ~session[conn[last.w].session].tx
  /\ Len(conn[last.w].log) >= 3

\* C21: once destroy() has completed, every executeQuery (directly or
\* through begin, commit, rollback) on a wrapper that was acquired before
\* and is not yet released fails, and no statement of it runs: no session,
\* no table and no wrapper changes
C21_DestroyedWrapperFails ==
  [][\A w \in Wrappers :
       (destroyed /\ ~conn[w].released /\ last'.w = w /\ last'.op \in ExecOps) =>
         /\ last'.res # "ok"
         /\ last'.raised = "ConnectionClosed"
         /\ UNCHANGED <<pool, session, table, nextRow, conn>>]_vars

\* C21 happens: an unreleased wrapper that had run statements before
\* destroy() fails an executeQuery after it
C21_Witness ==
  /\ destroyed
  /\ last.op = "executeQuery"
  /\ last.w \in Wrappers
  /\ ~last.rel
  /\ Held(last.w) # NULL
  /\ Len(conn[last.w].log) >= 1
  /\ last.res = "ConnectionClosed"

\* C22: a releaseConnection on a wrapper that was released before raises
\* an error and changes no session and no wrapper; and a session goes from
\* reserved back to the pool only in the first releaseConnection of the
\* wrapper that holds it, so at most once per acquisition
C22_SecondReleaseRaises ==
  [][/\ \A w \in Wrappers :
          (conn[w].released /\ last'.w = w /\ last'.op = "releaseConnection") =>
            /\ last'.res = "TypeError"
            /\ UNCHANGED <<pool, session, conn>>
     /\ \A s \in Sessions :
          (session[s].st = "reserved" /\ session'[s].st = "idle") =>
            /\ last'.op = "releaseConnection"
            /\ last'.w \in Wrappers
            /\ ~conn[last'.w].released
            /\ conn[last'.w].reservedConnection = s]_vars

\* C22 happens: the second releaseConnection of a wrapper failed while a
\* later wrapper holds the session the first one gave back
C22_Witness ==
  /\ last.op = "releaseConnection"
  /\ last.rel
  /\ last.res = "TypeError"
  /\ \E w \in Wrappers :
       /\ w > last.w
       /\ Held(w) = conn[last.w].session
       /\ session[Held(w)].st = "reserved"

\* C23: when a statement fails on a session inside a transaction, the
\* failing statement is the only one the adapter has sent: the wrapper's
\* log grows by that one statement, the transaction stays open in the
\* state the server left it (aborted, its pending rows untouched), and no
\* other wrapper and no table row changes; the aborted transaction ends
\* only when the caller ends it (rollbackTransaction, or commitTransaction
\* which the server runs as a rollback) or destroys the driver
C23_NoRollbackOnFailure ==
  [][/\ \A w \in Wrappers :
          (/\ last'.w = w
           /\ last'.op \in ExecOps
           /\ last'.raised \in ServerErrors
           /\ Held(w) # NULL
           /\ session[Held(w)].tx) =>
             LET s == Held(w)
             IN /\ session'[s].tx
                /\ session'[s].failed
                /\ session'[s].ins = session[s].ins
                /\ session'[s].del = session[s].del
                /\ \A t \in Sessions \ {s} : session'[t] = session[t]
                /\ table' = table
                /\ conn'[w].log = Append(conn[w].log, <<Len(conn[w].log) + 1, s>>)
                /\ \A v \in Wrappers \ {w} : conn'[v] = conn[v]
     /\ \A s \in Sessions :
          (session[s].failed /\ ~session'[s].failed) =>
             \/ last'.op = "destroy"
             \/ /\ last'.op \in {"rollbackTransaction", "commitTransaction"}
                /\ last'.w \in Wrappers
                /\ Held(last'.w) = s]_vars

\* C23 happens: after a statement failed inside a transaction, the next
\* statement of the wrapper met the transaction still open and aborted
C23_Witness ==
  /\ last.op = "executeQuery"
  /\ last.raised = AbortedError
  /\ last.w \in Wrappers
  /\ Held(last.w) # NULL
  /\ session[Held(last.w)].tx
  /\ session[Held(last.w)].failed
  /\ conn[last.w].began
  /\ Len(conn[last.w].log) >= 3

\* C24: transformValue never raises: whatever the parameter, arrays that
\* hold objects with no JSON text included, the call returns a value
C24_NeverRaises ==
  tpc # "raised"

\* the literal the claim gives for each array of arrays of the model
NestedLiteralText(a) ==
  CASE a = Arr(<<Arr(<<Num(1), Num(2)>>), Arr(<<Num(3)>>)>>) ->
         <<"{", "{", "1", ",", "2", "}", ",", "{", "3", "}", "}">>
    [] a = Arr(<<Arr(<<Str(<<"a">>)>>), Arr(<<>>)>>) ->
         <<"{", "{", DQ, "a", DQ, "}", ",", "{", "}", "}">>
    [] a = Arr(<<Arr(<<Arr(<<Str(<<"a">>)>>)>>)>>) ->
         <<"{", "{", "{", DQ, "a", DQ, "}", "}", "}">>
    [] a = Arr(<<Arr(<<Null, Str(<<"a", ",", "a">>)>>), Arr(<<Bool(TRUE)>>)>>) ->
         <<"{", "{", "N", "U", "L", "L", ",", DQ, "a", ",", "a", DQ, "}", ",",
           "{", "t", "r", "u", "e", "}", "}">>
    [] OTHER ->
         <<"{", "1", ",", "{", "2", "}", "}">>

\* C26: an element that is itself an array is written as a nested brace
\* literal in its place, at every depth: [[1,2],[3]] is sent as
\* {{1,2},{3}}; the inner array is neither flattened, nor quoted, nor
\* written as JSON
C26_NestedArrayLiteral ==
  (tpc \in {"sent", "stored"} /\ value \in NestedArrays) =>
    wire = Str(NestedLiteralText(value))

\* C26 happens: an array nested three deep has been transformed
C26_Witness ==
  /\ tpc = "sent"
  /\ value = Arr(<<Arr(<<Arr(<<Str(<<"a">>)>>)>>)>>)
  /\ wire.t = "string"

\* what the claim says the session gets for compiled parameter p: an
\* array as its literal, anything else as it is
HandedParameter(p) ==
  IF p.t # "array" THEN p
  ELSE IF p \in NestedArrays THEN Str(NestedLiteralText(p))
  ELSE Str(LiteralText(p.v, <<"N", "U", "L", "L">>))

\* C25: executeQuery hands the session the SQL text of the compiled query
\* unchanged, and a parameter list of the same length whose i-th entry is
\* the transformed i-th compiled parameter, in the same order
C25_ParametersOneByOne ==
  tpc = "handed" =>
    /\ wire.v.sql = value.v.sql
    /\ Len(wire.v.parameters) = Len(value.v.parameters)
    /\ \A i \in 1..Len(value.v.parameters) :
         wire.v.parameters[i] = HandedParameter(value.v.parameters[i])

\* C25 happens: a query with two different parameters, an array first,
\* has been handed to the session
C25_Witness ==
  /\ tpc = "handed"
  /\ Len(value.v.parameters) = 2
  /\ value.v.parameters[1] = Arr(<<Str(<<"a">>), Null>>)
  /\ value.v.parameters[2] = Num(7)

\* C27: the dialect and the driver each keep a frozen copy of the
\* configuration they were given: the copy has the properties the given
\* object had at construction, the pool is built from the driver's copy,
\* and afterwards no assignment, to the caller's object or to a copy,
\* changes a copy or the options of the pool
C27_FrozenSnapshot ==
  [][/\ (cpc = "config" /\ cpc' = "dialect") =>
          /\ heap'[2].fields = heap[1].fields
          /\ heap'[2].frozen
     /\ (cpc = "dialect" /\ cpc' = "driver") =>
          /\ heap'[3].fields = heap[2].fields
          /\ heap'[3].frozen
          /\ poolOptions' = heap[2].fields
     /\ cpc \in {"dialect", "driver"} => heap'[2] = heap[2]
     /\ cpc = "driver" =>
          /\ heap'[3] = heap[3]
          /\ poolOptions' = poolOptions]_vars

\* C27 happens: after construction the caller has changed its object, so
\* that it differs from the driver's copy, and an assignment to the
\* driver's copy has failed
C27_Witness ==
  /\ cpc = "driver"
  /\ heap[1].fields # heap[3].fields
  /\ heap[1].fields.max # poolOptions.max
  /\ assigned = [r |-> 3, res |-> "TypeError"]

C29_RowsAsReturned ==
  [][\A w \in Wrappers :
       (last'.w = w /\ last'.op \in ExecOps /\ last'.res = "ok") =>
         last'.rows = serverExec(Held(w), last'.sql).reply.rows]_vars

\* C29 happens: a select returned two records
C29_Witness ==
  /\ last.op = "executeQuery"
  /\ last.sql = "select"
  /\ last.res = "ok"
  /\ Len(last.rows) = 2
  /\ last.rows[1] # last.rows[2]

\* the statements of transaction control method op
ControlStatements(op) ==
  CASE op = "beginTransaction" ->
         {"begin"} \cup {"start transaction isolation level " \o l :
                           l \in IsolationLevels}
    [] op = "commitTransaction" -> {"commit"}
    [] OTHER -> {"rollback"}

\* C30: beginTransaction, commitTransaction and rollbackTransaction on a
\* wrapper that holds an open session send their statement whatever the
\* transaction state of the session: the wrapper's log grows by the one
\* statement, the session is as the server leaves it after that
\* statement, and the call fails only with the error the server raised
C30_NoTransactionGuard ==
  [][\A w \in Wrappers :
       (/\ last'.w = w
        /\ last'.op \in {"beginTransaction", "commitTransaction",
                          "rollbackTransaction"}
        /\ Held(w) # NULL
        /\ session[Held(w)].st # "closed") =>
          LET s == Held(w)
          IN /\ conn'[w].log = Append(conn[w].log, <<Len(conn[w].log) + 1, s>>)
             /\ \E sql \in ControlStatements(last'.op) :
                  /\ session'[s] = serverExec(s, sql).ss
                  /\ last'.raised = serverExec(s, sql).reply.error
                  /\ last'.res = "ok" => last'.sql = sql
             /\ last'.res = IF last'.raised = "" THEN "ok" ELSE last'.raised]_vars

\* C30 happens: a wrapper began a transaction, inserted a row in it, and
\* its second beginTransaction was sent and answered by the server
C30_Witness ==
  /\ last.op = "beginTransaction"
  /\ last.res = "ok"
  /\ last.w \in Wrappers
  /\ Len(conn[last.w].log) = 3
  /\ \E r \in Rows : fate[r].w = last.w /\ fate[r].st = "open"
  /\ session[Held(last.w)].tx

\* C31: whether the pool is open, and which of its sessions are reserved,
\* idle or closed, changes only in acquireConnection, releaseConnection
\* and destroy; executeQuery, beginTransaction, commitTransaction,
\* rollbackTransaction, streamQuery and init leave both as they are,
\* whether they succeed or fail
C31_PoolFrame ==
  [][(\/ pool' # pool
      \/ \E s \in Sessions : session'[s].st # session[s].st) =>
        last'.op \in {"acquireConnection", "releaseConnection", "destroy"}]_vars

\* C31 happens: a statement failed on a reserved session inside a
\* transaction, and the session is still reserved, the other one still
\* idle and the pool still open
C31_Witness ==
  /\ last.op \in ExecOps
  /\ last.raised = SyntaxError
  /\ last.w \in Wrappers
  /\ Held(last.w) # NULL
  /\ session[Held(last.w)].st = "reserved"
  /\ session[Held(last.w)].failed
  /\ \E t \in Sessions : session[t].st = "idle"
  /\ pool = "open"

\* an array with a plain-object element next to objects, strings,
\* numbers, booleans and nulls
HasObject(v) ==
  /\ v.t = "array"
  /\ \E i \in 1..Len(v.v) : v.v[i] \in Objects
  /\ \A i \in 1..Len(v.v) :
       v.v[i] \in Objects \/ v.v[i].t \in {"string", "number", "boolean", "null"}

\* the literal of such an array: an object its JSON text escaped and
\* quoted, every other element as in an array without objects
MixedLiteralText(a, tok) ==
  LET text == [i \in 1..Len(a) |->
                 CASE a[i].t = "object" -> QuotedText(JsonText(a[i]))
                   [] a[i].t = "string" -> QuotedText(a[i].v)
                   [] a[i].t = "null" -> tok
                   [] OTHER -> PlainText(a[i])]
      Cat[k \in 0..Len(a)] ==
        IF k = 0 THEN <<>>
        ELSE IF k = 1 THEN text[1]
        ELSE Cat[k - 1] \o <<",">> \o text[k]
  IN <<"{">> \o Cat[Len(a)] \o <<"}">>

\* C32: in an array with a plain-object element, every object element is
\* written as its JSON text with backslashes doubled and double quotes
\* backslash-escaped, in double quotes, and every other element as the
\* primitive rules write it: strings escaped and quoted once, numbers and
\* booleans bare, null as the null token
C32_ObjectElements ==
  (tpc \in {"sent", "stored"} /\ HasObject(value)) =>
    /\ wire.t = "string"
    /\ \E tok \in {<<"N", "U", "L", "L">>, <<"n", "u", "l", "l">>} :
         wire.v = MixedLiteralText(value.v, tok)

\* C32 happens: an array with a string, an object, a number, a null and a
\* boolean has been transformed
C32_Witness ==
  /\ tpc = "sent"
  /\ value = Arr(<<Str(<<"a", DQ>>), TestItem, Num(7), Null, Bool(FALSE)>>)
  /\ wire.t = "string"

\* C33: the session reference of a wrapper is the session the wrapper was
\* constructed with or cleared; a new wrapper starts with the session it
\* was given; only the wrapper's releaseConnection changes the reference
\* (executeQuery, beginTransaction, commitTransaction, rollbackTransaction
\* and streamQuery never do), and a cleared reference stays cleared
C33_ReferenceConstantOrCleared ==
  [][/\ \A w \in Wrappers :
          /\ conn'[w].session = conn[w].session
          /\ conn'[w].reservedConnection \in {conn[w].session, NULL}
          /\ Held(w) = NULL => conn'[w].reservedConnection = NULL
          /\ conn'[w].reservedConnection # Held(w) =>
               (last'.op = "releaseConnection" /\ last'.w = w)
     /\ \A w \in (1..Len(conn')) \ Wrappers :
          /\ conn'[w].reservedConnection = conn'[w].session
          /\ conn'[w].session \in Sessions
          /\ last'.op = "acquireConnection"]_vars

\* C33 happens: a wrapper still holds the session it was constructed with
\* after a transaction and a failed streamQuery, while an earlier
\* wrapper's reference is cleared
C33_Witness ==
  /\ last.op = "streamQuery"
  /\ last.w \in Wrappers
  /\ Held(last.w) = conn[last.w].session
  /\ Len(conn[last.w].log) >= 2
  /\ \E v \in Wrappers : conn[v].released /\ Held(v) = NULL

\* C34: releaseConnection sends no statement: the wrapper's log does not
\* grow, and the session goes back to the pool with its transaction, and
\* the rows pending in it, as they were; acquireConnection sends none
\* either, so the wrapper that gets the session next starts in the
\* transaction the session was left in
C34_ReleaseKeepsTransaction ==
  [][/\ \A w \in Wrappers :
          (last'.op = "releaseConnection" /\ last'.w = w /\ Held(w) # NULL) =>
             LET s == Held(w)
             IN /\ conn'[w].log = conn[w].log
                /\ session'[s].tx = session[s].tx
                /\ session'[s].failed = session[s].failed
                /\ session'[s].ins = session[s].ins
                /\ session'[s].del = session[s].del
                /\ table' = table
     /\ \A w \in (1..Len(conn')) \ Wrappers :
          LET s == conn'[w].reservedConnection
          IN /\ conn'[w].log = <<>>
             /\ session'[s] = [session[s] EXCEPT !.st = "reserved"]
             /\ table' = table]_vars

\* C34 happens: a wrapper selects, as its first statement, a row that an
\* earlier wrapper inserted in a transaction it never ended before it
\* released the session
C34_Witness ==
  /\ last.op = "executeQuery"
  /\ last.sql = "select"
  /\ last.res = "ok"
  /\ last.w \in Wrappers
  /\ Len(conn[last.w].log) = 1
  /\ ~conn[last.w].began
  /\ session[Held(last.w)].tx
  /\ \E r \in Rows :
       /\ InRows(r, last.rows)
       /\ r \notin table
       /\ fate[r].w # last.w
       /\ conn[fate[r].w].released

\* C35 as stated: a statement never runs on a session that another
\* wrapper holds at the time
C35_AsStated ==
  ran.other = 0

\* C35: a statement runs on a session that another wrapper holds only
\* when its own wrapper was released while the statement was in flight;
\* a statement whose wrapper is not released before it has run, runs on
\* a session no other wrapper holds
C35_InFlightOnlyAfterRelease ==
  ran.other # 0 => ran.released

\* C35 happens: a statement ran after its wrapper had been released and
\* another wrapper had acquired the session
C35_Witness ==
  /\ ran.released
  /\ ran.other # 0
  /\ Held(ran.other) = ran.s
  /\ Held(ran.w) = NULL
  /\ last.op = "executeQuery"
  /\ last.res = "ok"
  /\ last.sql = "insert"

\* C36: transforming the result of a transformation changes nothing:
\* whatever transformValue returned for a parameter, transformValue
\* returns that value for it; and the text jsonbArray made of an array of
\* objects is handed on by the transformation as it is
C36_Idempotent ==
  [][/\ tpc' \in {"sent again", "sent jsonb again"} => wire' = wire
     /\ tpc' = "sent jsonb" => wire' = jsonbArray(value.v)]_vars

\* C36 happens: the literal of an array whose string holds a double
\* quote, with its quotes and backslash, has been transformed again
C36_Witness ==
  /\ tpc = "sent again"
  /\ value = Arr(<<Str(<<DQ>>)>>)
  /\ wire = Str(<<"{", DQ, BS, DQ, DQ, "}">>)

\* C37: executeQuery and transformValue leave what they are given as it
\* was: once the call has handed the statement over, or has failed, the
\* compiled query has the SQL text and the parameter list it had before,
\* every array and object in the list included
C37_InputsUnchanged ==
  [][value' = value]_vars

\* C37 happens: a query with an array parameter and an object parameter
\* was handed over; the session got a literal for the array, and the
\* compiled query still holds the array
C37_Witness ==
  /\ tpc = "handed"
  /\ Len(value.v.parameters) = 2
  /\ value.v.parameters[1] = Arr(<<Str(<<"a">>), Null>>)
  /\ value.v.parameters[2] = Obj(<< <<(<<"i", "d">>), Num(1)>> >>)
  /\ wire.v.parameters[1].t = "string"

====
